---------------------------- MODULE Spec2Model ----------------------------
(***************************************************************************)
(* A model of the deduplication and incremental-publishing state machine  *)
(* of webcamerajob/vn:                                                     *)
(*   - src/main.py    the Article Pipeline (RSS feed -> article directory, *)
(*                    Catalog file, posted-state file)                     *)
(*   - src/poster.py  the Publisher (article directory -> transport,       *)
(*                    Ledger = posted-state file)                          *)
(*                                                                         *)
(* Three specifications share the variables:                               *)
(*   LedgerSpec    save_posted_ids applied again and again to a state file *)
(*   Spec          one Publisher run (poster.py main)                      *)
(*   PipelineSpec  Pipeline runs (main.py main), one after the other       *)
(***************************************************************************)
EXTENDS Integers, Sequences, FiniteSets, TLC

(***************************************************************************)
(* Bounds of the model.                                                    *)
(***************************************************************************)
MaxId == 4

(* poster.py:22 sets MAX_POSTED_RECORDS = 200.  The model runs the same    *)
(* code with the cap scaled down to 2, so that files longer than the cap   *)
(* and the eviction branches of the deque are reached.                     *)
MAX_POSTED_RECORDS == 2

(* State files are tried up to one item longer than the cap. *)
MaxPrior == MAX_POSTED_RECORDS + 1

(***************************************************************************)
(* Python / JSON values that occur as article ids and as state-file items. *)
(*   t = "int"   the integer n                                             *)
(*   t = "str"   the decimal string str(n)              ("7")              *)
(*   t = "guid"  a non-numeric string, the n-th GUID    ("https://...")    *)
(*   t = "repr"  the string str(d) of a dict d = {"id": v}                 *)
(*   t = "obj"   the JSON object {"id": v}                                 *)
(* For "repr" and "obj", o and n are the kind and number of v.             *)
(***************************************************************************)
PyInt(n) == [t |-> "int", n |-> n, o |-> "-"]
PyStr(n) == [t |-> "str", n |-> n, o |-> "-"]
PyGuid(n) == [t |-> "guid", n |-> n, o |-> "-"]
PyObj(v) == [t |-> "obj", n |-> v.n, o |-> v.t]
ObjId(x) == [t |-> x.o, n |-> x.n, o |-> "-"]

IsPyString(v) == v.t \in {"str", "guid", "repr"}

(* str(item) *)
str(v) ==
    CASE v.t = "int" -> PyStr(v.n)
      [] v.t = "obj" -> [t |-> "repr", n |-> v.n, o |-> v.o]
      [] OTHER -> v

(* str(item).isdigit() for an int or str item: the model's ints are >= 0 *)
isdigit(v) == v.t \in {"int", "str"}

(* Decimal digits of n, most significant first. *)
RECURSIVE Digits(_)
Digits(n) == IF n < 10 THEN <<n>> ELSE Digits(n \div 10) \o <<n % 10>>

RECURSIVE LexLess(_, _)
LexLess(s, u) ==
    IF s = <<>> THEN u # <<>>
    ELSE IF u = <<>> THEN FALSE
    ELSE IF Head(s) # Head(u) THEN Head(s) < Head(u)
    ELSE LexLess(Tail(s), Tail(u))

(* Rank of the first character: digits < letters < "{" *)
StrRank(v) == CASE v.t = "str" -> 0 [] v.t = "guid" -> 1 [] OTHER -> 2

(* a < b in Python, for two ints or two strings *)
PyLess(a, b) ==
    IF a.t = "int" /\ b.t = "int" THEN a.n < b.n
    ELSE IF StrRank(a) # StrRank(b) THEN StrRank(a) < StrRank(b)
    ELSE IF a.t = "str" THEN LexLess(Digits(a.n), Digits(b.n))
    ELSE a.n < b.n

(* sorted()/list.sort() raise TypeError when an int meets a str *)
MixedTypes(S) == \E a, b \in S : (a.t = "int") # (b.t = "int")

PyMax(S) == CHOOSE m \in S : \A x \in S : x = m \/ PyLess(x, m)

(* sorted(list(S), reverse=True) for a set of mutually comparable values *)
RECURSIVE SortedDesc(_)
SortedDesc(S) ==
    IF S = {} THEN <<>>
    ELSE LET m == PyMax(S) IN <<m>> \o SortedDesc(S \ {m})

Range(s) == {s[i] : i \in 1..Len(s)}

(***************************************************************************)
(* The posted-state (Ledger) file.  ok = FALSE stands for a file that is   *)
(* missing, empty, not valid JSON or not a list.                           *)
(***************************************************************************)
NoFile == [ok |-> FALSE, items |-> <<>>]

(* A file holding valid JSON that is no container: a number, null, true.  *)
(* poster.py treats it as "not a list"; in main.py iterating it raises     *)
(* TypeError, which neither load_posted_ids nor load_catalog catches.      *)
ScalarFile == [ok |-> FALSE, items |-> <<>>, scalar |-> TRUE]
NotIterable(file) == "scalar" \in DOMAIN file
ListFile(items) == [ok |-> TRUE, items |-> items]

(* poster.py load_posted_ids: a set of ints *)
RECURSIVE PosterLoadItems(_)
PosterLoadItems(items) ==
    IF items = <<>> THEN {}
    ELSE LET x == Head(items)
             rest == PosterLoadItems(Tail(items))
         IN  IF x.t = "obj"
             THEN (IF x.o \in {"int", "str"} THEN {PyInt(x.n)} \cup rest ELSE rest)
             ELSE IF x.t \in {"int", "str", "guid"} /\ isdigit(x)
                  THEN {PyInt(x.n)} \cup rest
                  ELSE rest

poster_load_posted_ids(file) ==
    IF ~file.ok THEN {} ELSE PosterLoadItems(file.items)

(* collections.deque(maxlen=MAX_POSTED_RECORDS) *)
appendleft(dq, x) ==
    LET s == <<x>> \o dq
    IN  IF Len(s) > MAX_POSTED_RECORDS THEN SubSeq(s, 1, MAX_POSTED_RECORDS) ELSE s

(* mutant of append: a plain list, no maxlen *)
append_unbounded(dq, x) == dq \o <<x>>

append(dq, x) ==
    LET s == dq \o <<x>>
    IN  IF Len(s) > MAX_POSTED_RECORDS THEN SubSeq(s, 2, Len(s)) ELSE s

(* poster.py 352-368: the ids read back from the existing file *)
RECURSIVE CurrentIdsList(_)
CurrentIdsList(items) ==
    IF items = <<>> THEN <<>>
    ELSE LET x == Head(items)
             rest == CurrentIdsList(Tail(items))
         IN  IF x.t = "obj" THEN <<ObjId(x)>> \o rest
             ELSE IF x.t = "int" THEN <<x>> \o rest
             ELSE rest

(* poster.py 374-375 *)
RECURSIVE AppendLeftAll(_, _)
AppendLeftAll(dq, news) ==
    IF news = <<>> THEN dq
    ELSE AppendLeftAll(appendleft(dq, Head(news)), Tail(news))

(* poster.py 377-380 *)
RECURSIVE AppendKept(_, _, _)
AppendKept(dq, current, all) ==
    IF current = <<>> THEN dq
    ELSE LET aid == Head(current)
         IN  AppendKept(IF aid \in all /\ aid \notin Range(dq) THEN append(dq, aid) ELSE dq,
                        Tail(current), all)

(* poster.py save_posted_ids: raised = TRUE when sorted() raises TypeError *)
(* before the file is opened; otherwise file is what is written.           *)
save_posted_ids(all_ids_to_save, file) ==
    LET current_ids_list == IF file.ok THEN CurrentIdsList(file.items) ELSE <<>>
        current_ids_set == Range(current_ids_list)
        fresh == all_ids_to_save \ current_ids_set
    IN  IF MixedTypes(fresh)
        THEN [raised |-> TRUE, file |-> file]
        ELSE [raised |-> FALSE,
              file |-> ListFile(AppendKept(AppendLeftAll(<<>>, SortedDesc(fresh)),
                                           current_ids_list, all_ids_to_save))]



(***************************************************************************)
(* The article directory.  One entry per directory articles/<id>_<slug>:   *)
(* meta.json, content.txt, content.<lang>.txt and the files of images/.    *)
(***************************************************************************)
PyNone == [t |-> "none", n |-> 0, o |-> "-"]

(* A text that is absent: a missing file, or None returned by a fetch. *)
NoText == "<none>"
(* "\n\n": a text that is not empty and holds no paragraph *)
BlankText == "<blank>"
(* A meta.json key that is absent *)
NoKey == "<nokey>"

(* hashlib.sha256(text).hexdigest(): distinct texts, distinct digests *)
sha256(text) == <<"sha256", text>>
NoHash == <<"sha256", NoText>>

(* Titles: a str (l = language it is written in), "" or the dict          *)
(* {"rendered": s} that parse_rss_feed builds.                             *)
StrTitle(s, l) == [k |-> "str", s |-> s, l |-> l]
DictTitle(s) == [k |-> "dict", s |-> s, l |-> "en"]
EmptyTitle == StrTitle("", "-")

NoMeta ==
    [exists |-> FALSE, id |-> PyNone, slug |-> "", title |-> EmptyTitle,
     text_file |-> "", images |-> <<>>, hash |-> NoHash, translated_to |-> NoKey]

(* content.<lang>.txt: the title line, then the paragraphs of text, the    *)
(* i-th one in language langs[i] (the target, or "en" when the provider    *)
(* failed and the original paragraph was kept).                            *)
NoTranslation == [exists |-> FALSE, title |-> EmptyTitle, text |-> NoText, langs |-> <<>>]

NoEntry == [meta |-> NoMeta, content |-> NoText, content_t |-> NoTranslation, images |-> {}]

(***************************************************************************)
(* poster.py                                                               *)
(***************************************************************************)

(* len(chunk_text(full_html_content)): the title and a short body fit one *)
(* message, a long body needs a second one.                                *)
LongText == "t2"
NChunks(text) == IF text = LongText THEN 2 ELSE 1

(* poster.py validate_article; a dict title raises AttributeError at       *)
(* .strip(), which main catches (441) and skips the article like a None.   *)
validate_article(e) ==
    LET title_ok == e.meta.title.k = "str" /\ e.meta.title.s # ""
        named == IF e.meta.text_file = "content.txt" /\ e.content # NoText THEN "content.txt"
                 ELSE IF e.meta.text_file = "content.ru.txt" /\ e.content_t.exists
                      THEN "content.ru.txt"
                 ELSE ""
        text_path == IF named # "" THEN named
                     ELSE IF e.content_t.exists THEN "content.ru.txt"
                     ELSE IF e.content # NoText THEN "content.txt"
                     ELSE ""
        listed == {u \in Range(e.meta.images) : u \in e.images}
        valid_imgs == IF listed # {} THEN listed ELSE e.images
    IN  [ok |-> title_ok /\ text_path # "",
         text_path |-> text_path,
         image_paths |-> valid_imgs]

(* The body text the Publisher reads from text_path *)
ReadText(e, text_path) ==
    IF text_path = "content.ru.txt" THEN e.content_t.text ELSE e.content

(***************************************************************************)
(* main.py                                                                 *)
(***************************************************************************)
(* main.py load_posted_ids: {str(item) for item in json.load(f)}; the     *)
(* caller handles a file that cannot be iterated (NotIterable).            *)
main_load_posted_ids(file) ==
    IF ~file.ok THEN {} ELSE {str(file.items[i]) : i \in 1..Len(file.items)}

(* main.py 290-291: the slug made from the title *)
Slug(title) == IF title = "c" THEN "c" ELSE "a-b"

(* Paragraphs of a text: raw_text.split("\n\n") without the blank ones *)
NParas(text) ==
    CASE text \in {NoText, "", BlankText} -> 0
      [] text = LongText -> 2
      [] OTHER -> 1

(* main.py translate_text: "" for a text that is empty or not a str (no    *)
(* provider call); else the provider's translation, or the text itself     *)
(* when the provider raises or returns a non-str.  It never raises.        *)
translate_text(title, to_lang, provider_ok) ==
    IF title.k # "str" \/ title.s = ""
    THEN [out |-> EmptyTitle, provider_calls |-> 0]
    ELSE [out |-> StrTitle(title.s, IF provider_ok THEN to_lang ELSE title.l),
          provider_calls |-> 1]

(* main.py 183-190: whether translate_text raises: the provider call is    *)
(* inside try / except Exception, and the function returns the text        *)
(* after the warning.                                                      *)
Raises(provider_ok) == FALSE

MAIN_MAX_RETRIES == 3
BASE_DELAY == 1

(* main.py 324-336 and 393-404: the iterations of                          *)
(* for attempt in range(1, MAX_RETRIES + 1), which breaks at the first     *)
(* attempt that does not raise                                             *)
Attempts(raised) == IF raised THEN MAIN_MAX_RETRIES ELSE 1

(* The time.sleep(BASE_DELAY * 2 ** (attempt - 1)) of its attempts that    *)
(* raised                                                                  *)
Backoff(raised) ==
    IF raised THEN [k \in 1..MAIN_MAX_RETRIES |-> BASE_DELAY * 2 ^ (k - 1)] ELSE <<>>

(* existing_meta.get("translated_to", "") *)
TranslatedToOr(meta, default) ==
    IF meta.translated_to = NoKey THEN default ELSE meta.translated_to

(* main.py 308-316: the stored record answers for this article *)
CacheHit(e, aid, hash, translate_to) ==
    /\ e.meta.exists
    /\ e.meta.hash = hash
    /\ TranslatedToOr(e.meta, "") = translate_to
    /\ e.meta.id = aid

(* main.py save_image, for every URL of the article: the URLs whose file   *)
(* is on disk afterwards, and the URLs requested from the network.         *)
SavedImages(e, info) ==
    {u \in Range(info.image_urls) : u \in e.images \/ u \in info.ok_urls}
Downloads(e, info) == {u \in Range(info.image_urls) : u \notin e.images}

Perms(S) == {q \in [1..Cardinality(S) -> S] : Range(q) = S}

(* mutant of ImagesRequired: an article without images is kept *)
ImagesOptional(images) == FALSE

(* main.py 351: if not images *)
ImagesRequired(images) == images = <<>>

(* main.py parse_and_save(article_info, translate_to) on the directory     *)
(* entry e of articles/<aid>_<slug>.  tr[i] tells whether the provider     *)
(* translates paragraph i; images is the order in which the downloads      *)
(* complete (as_completed).  ret is the returned record (NoMeta for None); *)
(* entry is the directory afterwards.                                      *)
parse_and_save(e, info, translate_to, tr, images) ==
    LET aid == info.guid
        full_article_text == info.text
        current_content_hash == sha256(full_article_text)
        none(outcome, tcalls, downloads) ==
            [ret |-> NoMeta, entry |-> e, outcome |-> outcome, fetched |-> TRUE,
             translate_calls |-> tcalls, provider_calls |-> 0, downloads |-> downloads,
             wrote |-> {}, title_attempts |-> 0, body_attempts |-> 0, backoff |-> <<>>]
    IN  IF full_article_text \in {NoText, ""}
        THEN none("no_text", 0, {})
        ELSE IF CacheHit(e, aid, current_content_hash, translate_to)
        THEN [ret |-> e.meta, entry |-> e, outcome |-> "cached", fetched |-> TRUE,
              translate_calls |-> 0, provider_calls |-> 0, downloads |-> {},
              wrote |-> {}, title_attempts |-> 0, body_attempts |-> 0, backoff |-> <<>>]
        ELSE
        LET t == translate_text(DictTitle(info.title), translate_to, TRUE)
            title == IF translate_to # "" THEN t.out ELSE DictTitle(info.title)
            title_calls == IF translate_to # "" THEN 1 ELSE 0
            title_provider == IF translate_to # "" THEN t.provider_calls ELSE 0
            title_attempts == IF translate_to # "" THEN Attempts(Raises(TRUE)) ELSE 0
            title_backoff == IF translate_to # "" THEN Backoff(Raises(TRUE)) ELSE <<>>
        IN  IF ImagesRequired(images)
            THEN [none("no_images", title_calls, Downloads(e, info))
                      EXCEPT !.provider_calls = title_provider,
                             !.title_attempts = title_attempts,
                             !.backoff = title_backoff]
            ELSE
            LET meta == [exists |-> TRUE, id |-> aid, slug |-> Slug(info.title),
                         title |-> title, text_file |-> "content.txt",
                         images |-> images, hash |-> current_content_hash,
                         translated_to |-> NoKey]
                old == e.meta
                stale == old.hash # current_content_hash
                             \/ old.translated_to # translate_to
                n == NParas(full_article_text)
                translated ==
                    [exists |-> TRUE, title |-> title, text |-> full_article_text,
                     langs |-> [i \in 1..n |-> IF tr[i] THEN translate_to ELSE "en"]]
                final ==
                    IF translate_to = "" THEN meta
                    ELSE IF stale /\ n = 0 THEN [meta EXCEPT !.translated_to = ""]
                    ELSE [meta EXCEPT !.translated_to = translate_to,
                                      !.text_file = "content.ru.txt"]
                retranslate == translate_to # "" /\ stale /\ n > 0
                body_raised == \E i \in 1..n : Raises(tr[i])
            IN  [ret |-> final,
                 entry |-> [meta |-> final,
                            content |-> full_article_text,
                            content_t |-> IF retranslate THEN translated ELSE e.content_t,
                            images |-> e.images \cup Range(images)],
                 outcome |-> "saved",
                 fetched |-> TRUE,
                 translate_calls |-> title_calls + (IF retranslate THEN n ELSE 0),
                 provider_calls |-> title_provider + (IF retranslate THEN n ELSE 0),
                 downloads |-> Downloads(e, info),
                 title_attempts |-> title_attempts,
                 body_attempts |-> IF retranslate THEN Attempts(body_raised) ELSE 0,
                 backoff |-> title_backoff
                             \o (IF retranslate THEN Backoff(body_raised) ELSE <<>>),
                 wrote |-> {"content.txt", "meta.json"}
                           \cup (IF retranslate THEN {"content.ru.txt"} ELSE {})
                           \cup (IF Downloads(e, info) \cap info.ok_urls # {}
                                 THEN {"images"} ELSE {})]

(* The Catalog file: a list of {id, hash, translated_to}. *)
CatalogEntry(id, hash, translated_to) ==
    [id |-> id, hash |-> hash, translated_to |-> translated_to]

(* What main keeps in memory for a record: the fields save_catalog reads *)
CatalogItem(meta) == CatalogEntry(meta.id, meta.hash, meta.translated_to)

(* item.get(key, ""): a key is absent when the dict has no such field, or *)
(* when a record of parse_and_save holds NoKey for translated_to.          *)
(* The empty string where a hash is expected *)
EmptyHash == <<"str", "">>
EmptyStr(key) == IF key = "hash" THEN EmptyHash ELSE ""

Get(item, key) ==
    IF key \notin DOMAIN item THEN EmptyStr(key)
    ELSE IF key = "translated_to" /\ item[key] = NoKey THEN EmptyStr(key)
    ELSE item[key]

(* isinstance(item, dict) and "id" in item *)
WellFormed(item) == "id" \in DOMAIN item

(* main.py load_catalog: [] for a missing or corrupt file, else the        *)
(* elements that are dicts with an id; the caller handles a file that      *)
(* cannot be iterated (NotIterable).                                       *)
load_catalog(file) == IF file.ok THEN SelectSeq(file.items, WellFormed) ELSE <<>>

(* mutant of Minimal: the whole in-memory record is written *)
WholeRecord(item) == item

(* main.py 158-163: the entry save_catalog writes for a well-formed item *)
Minimal(item) == CatalogEntry(item.id, Get(item, "hash"), Get(item, "translated_to"))

(* main.py save_catalog: the minimal projection of the well-formed items *)
save_catalog(catalog) ==
    LET kept == SelectSeq(catalog, WellFormed)
    IN  ListFile([i \in 1..Len(kept) |-> Minimal(kept[i])])

(***************************************************************************)
(* A file as the operating system holds it: a sequence of cells, one per   *)
(* element json.dump wrote, closed by the cell of the final bracket.  A    *)
(* write at an offset past the end leaves a hole.                          *)
(***************************************************************************)
End == [cell |-> "end"]
Hole == [cell |-> "hole"]
Null == [cell |-> "null"]
IsMarker(c) == "cell" \in DOMAIN c

NoRaw == [exists |-> FALSE, cells |-> <<>>]
Truncated == [exists |-> TRUE, cells |-> <<>>]

(* json.dump(list, f): the complete text of a list *)
Dump(items) == [exists |-> TRUE, cells |-> items \o <<End>>]

(* The text of a file in the model's [ok, items] form *)
RawOf(file) ==
    IF NotIterable(file) THEN [exists |-> TRUE, cells |-> <<Null>>]
    ELSE IF file.ok THEN Dump(file.items)
    ELSE NoRaw

IsDump(raw) ==
    /\ raw.exists
    /\ Len(raw.cells) >= 1
    /\ raw.cells[Len(raw.cells)] = End
    /\ \A i \in 1..(Len(raw.cells) - 1) : ~IsMarker(raw.cells[i])

(* json.load on the text: a list, a scalar, or JSONDecodeError (and a      *)
(* missing file) as NoFile.                                                *)
Parse(raw) ==
    IF raw.exists /\ raw.cells = <<Null>> THEN ScalarFile
    ELSE IF IsDump(raw) THEN ListFile(SubSeq(raw.cells, 1, Len(raw.cells) - 1))
    ELSE NoFile

(* write(data) on a handle whose offset is pos *)
WriteAt(cells, pos, data) ==
    LET n == IF Len(cells) > pos + Len(data) THEN Len(cells) ELSE pos + Len(data)
    IN  [i \in 1..n |-> IF i > pos /\ i <= pos + Len(data) THEN data[i - pos]
                        ELSE IF i <= Len(cells) THEN cells[i]
                        ELSE Hole]

(***************************************************************************)
(* State.                                                                  *)
(***************************************************************************)
VARIABLES
    stateFile,          \* the posted-state file (articles/posted.json)
    articles,           \* the article directory: directory name -> entry
    catalogFile,        \* the Catalog file (articles/catalog.json)
    lastSave,           \* history: the last call of save_posted_ids
    \* ---- one Publisher run (poster.py main) ----
    ppc,                \* where the run is
    limit,              \* --limit (NoLimit when not given)
    posted_ids_old,
    articles_to_post,
    new_ids,
    sent,
    pidx,               \* index of the article of the publishing loop
    chunk_i,            \* index of the chunk being sent
    attempts,           \* history: one record per article the loop took up
    \* ---- Pipeline runs (main.py main) ----
    feed,               \* upstream: the descriptors of the RSS feed, with
                        \* what the article page of each one holds
    lang,               \* --lang ("" when no translation is requested)
    mpc,                \* where the run is
    run,                \* number of the run
    posted_ids_from_repo,
    rss_entries,
    catalog,
    existing_ids_in_catalog,
    new_articles_processed_in_run,
    updated_guids_to_post,
    midx,               \* index of the descriptor of the batch loop
    status,             \* the NEW_ARTICLES_STATUS line printed, or "-"
    atStart,            \* history: the files as the run found them
    last,               \* history: the last descriptor the loop took up
    calls,              \* history: the descriptors (by index) passed to
                        \* parse_and_save in this run, in call order
    provider_calls,     \* history: translation requests sent in this run
    exit_code,          \* the exit code of the process (Running until it ends)
    faulty,             \* environment: writes to the state files can fail
    save_errors,        \* history: the files whose write raised IOError
    \* ---- processes that read and write the two state files ----
    disk,               \* the text of the Catalog and of the posted-state file
    procs,              \* per process: the call it is in and where it is
    \* ---- one call of poster.py _post_with_retry ----
    rpc,                \* where the call is
    attempt,            \* the loop variable
    responses,          \* history: what the transport answered, per request
    sleeps,             \* history: the asyncio.sleep durations, in order
    ret,                \* the value returned ("-" before the call ends)
    \* ---- one call of poster.py chunk_text ----
    ctext,              \* the text argument, a sequence of characters
    csize,              \* the size argument
    chunks,             \* the call of chunk_text: whether it returned, and the list
    \* ---- one call of save_image, parse_full_article or fetch_page_content ----
    fpc,                \* where the call is
    fcall,              \* the function called and its URL
    fanswers,           \* history: what the server answered, per request of the call
    fsleeps,            \* history: the time.sleep durations of the call, in order
    fret,               \* what the call returned, or that it raised
    store               \* the image folder: per destination path, the file there

fileVars == <<stateFile, articles, catalogFile>>
posterVars == <<ppc, limit, posted_ids_old, articles_to_post, new_ids, sent, pidx,
                chunk_i, attempts>>
pipeVars == <<feed, lang, mpc, run, posted_ids_from_repo, rss_entries, catalog,
              existing_ids_in_catalog, new_articles_processed_in_run,
              updated_guids_to_post, midx, status, atStart, last, calls,
              provider_calls, exit_code, faulty, save_errors>>
ioVars == <<disk, procs>>
retryVars == <<rpc, attempt, responses, sleeps, ret>>
chunkVars == <<ctext, csize, chunks>>
fetchVars == <<fpc, fcall, fanswers, fsleeps, fret, store>>
auxVars == <<retryVars, chunkVars, fetchVars>>
vars == <<fileVars, lastSave, posterVars, pipeVars, ioVars, auxVars>>

NoSave == [called |-> FALSE, raised |-> FALSE, prior |-> NoFile, all |-> {}]

SeqsUpTo(S, n) == UNION {[1..k -> S] : k \in 0..n}

(***************************************************************************)
(* Directory names <aid>_<slug> and their order (sorted(iterdir())).       *)
(***************************************************************************)
Slugs == {"a-b", "c"}
DirIds == {PyStr(1), PyGuid(1)}
DirName(aid, slug) == [g |-> str(aid), s |-> slug]
DirNames == {[g |-> g, s |-> s] : g \in DirIds, s \in Slugs}

DirLess(d1, d2) ==
    IF d1.g # d2.g THEN PyLess(d1.g, d2.g) ELSE d1.s = "a-b" /\ d2.s = "c"

RECURSIVE SortedDirs(_)
SortedDirs(D) ==
    IF D = {} THEN <<>>
    ELSE LET m == CHOOSE x \in D : \A y \in D : y = x \/ DirLess(x, y)
         IN  <<m>> \o SortedDirs(D \ {m})

NoArticles == [d \in DirNames |-> NoEntry]

(***************************************************************************)
(* poster.py main                                                          *)
(***************************************************************************)
NoLimit == -1

PosterIdle ==
    /\ ppc = "idle"
    /\ limit = NoLimit
    /\ posted_ids_old = {}
    /\ articles_to_post = <<>>
    /\ new_ids = {}
    /\ sent = 0
    /\ pidx = 1
    /\ chunk_i = 0
    /\ attempts = <<>>

(* poster.py 415-442: the directories whose article is taken *)
Eligible(arts, posted, d) ==
    /\ arts[d].meta.exists
    /\ arts[d].meta.id # PyNone
    /\ arts[d].meta.id \notin posted
    /\ validate_article(arts[d]).ok

ValidatedData(arts, d) ==
    LET v == validate_article(arts[d])
    IN  [id |-> arts[d].meta.id, dir |-> d, text_path |-> v.text_path,
         image_paths |-> v.image_paths]

Collected(arts, posted) ==
    LET dirs == SelectSeq(SortedDirs(DirNames), LAMBDA d : Eligible(arts, posted, d))
    IN  [i \in 1..Len(dirs) |-> ValidatedData(arts, dirs[i])]

(* list.sort(key=lambda x: x["id"]): stable *)
RECURSIVE InsertById(_, _)
InsertById(sorted, x) ==
    IF sorted = <<>> THEN <<x>>
    ELSE IF PyLess(x.id, Head(sorted).id) THEN <<x>> \o sorted
    ELSE <<Head(sorted)>> \o InsertById(Tail(sorted), x)

RECURSIVE SortById(_)
SortById(seq) ==
    IF seq = <<>> THEN <<>>
    ELSE InsertById(SortById(SubSeq(seq, 1, Len(seq) - 1)), seq[Len(seq)])

(* mutant of SortArticles: the articles stay in directory order *)
DirectoryOrder(found) == found

(* poster.py 444: articles_to_post.sort(key=lambda x: x["id"]) *)
SortArticles(found) == SortById(found)

NewAttempt(a) ==
    [dir |-> a.dir, id |-> a.id, media |-> "none", nchunks |-> 0, accepted |-> 0,
     failed |-> FALSE, exc |-> FALSE, marked |-> FALSE, buttons |-> {}]

(* poster.py 409-450: load the Ledger, collect, validate and sort.  The    *)
(* sort raises TypeError (uncaught) when int and str ids meet.             *)
PosterLoad ==
    /\ ppc = "start"
    /\ LET old == poster_load_posted_ids(stateFile)
           found == Collected(articles, old)
       IN  /\ posted_ids_old' = old
           /\ IF MixedTypes({found[i].id : i \in 1..Len(found)})
              THEN /\ ppc' = "raised"
                   /\ articles_to_post' = found
              ELSE /\ articles_to_post' = SortArticles(found)
                   /\ ppc' = IF found = <<>> THEN "done" ELSE "loop"
    /\ UNCHANGED <<pipeVars, ioVars, auxVars>>
    /\ UNCHANGED <<fileVars, lastSave, limit, new_ids, sent, pidx, chunk_i, attempts>>

(* mutant of LimitReached: the loop stops one article late *)
LimitReachedLate(n, done) == n # NoLimit /\ done > n

(* poster.py 458: if limit is not None and sent >= limit: break *)
LimitReached(n, done) == n # NoLimit /\ done >= n

(* poster.py 457-470: the head of the publishing loop *)
PosterBegin ==
    /\ ppc = "loop"
    /\ IF pidx > Len(articles_to_post) \/ LimitReached(limit, sent)
       THEN /\ ppc' = "save"
            /\ UNCHANGED attempts
       ELSE /\ ppc' = "media"
            /\ attempts' = Append(attempts, NewAttempt(articles_to_post[pidx]))
    /\ UNCHANGED <<pipeVars, ioVars, auxVars>>
    /\ UNCHANGED <<fileVars, lastSave, limit, posted_ids_old, articles_to_post, new_ids,
                   sent, pidx, chunk_i>>

(* poster.py 473-475: the images, as one media group; a refusal is only logged *)
PosterSendMedia ==
    /\ ppc = "media"
    /\ IF articles_to_post[pidx].image_paths = {}
       THEN UNCHANGED attempts
       ELSE \E r \in {"sent", "rejected"} :
                attempts' = [attempts EXCEPT ![Len(attempts)].media = r]
    /\ ppc' = "text"
    /\ UNCHANGED <<pipeVars, ioVars, auxVars>>
    /\ UNCHANGED <<fileVars, lastSave, limit, posted_ids_old, articles_to_post, new_ids,
                   sent, pidx, chunk_i>>

(* poster.py 478-509: read the text and cut it into chunks; an exception   *)
(* here is caught at 533 and the article is left unposted.                 *)
PosterReadText ==
    /\ ppc = "text"
    /\ \/ /\ attempts' = [attempts EXCEPT ![Len(attempts)].exc = TRUE]
          /\ ppc' = "loop"
          /\ pidx' = pidx + 1
          /\ UNCHANGED chunk_i
       \/ /\ attempts' = [attempts EXCEPT ![Len(attempts)].nchunks =
                 NChunks(ReadText(articles[articles_to_post[pidx].dir],
                                  articles_to_post[pidx].text_path))]
          /\ ppc' = "chunk"
          /\ chunk_i' = 1
          /\ UNCHANGED pidx
    /\ UNCHANGED <<pipeVars, ioVars, auxVars>>
    /\ UNCHANGED <<fileVars, lastSave, limit, posted_ids_old, articles_to_post, new_ids, sent>>

(* mutant of ChunkOutcome: a refused last chunk still counts as sent *)
ChunkOutcomeIgnoringRefusal(ok, i, n) ==
    IF i < n THEN (IF ok THEN "more" ELSE "failed") ELSE "posted"

(* poster.py 511-531: what one send_message result does to the article:   *)
(* a refusal clears all_chunks_sent and breaks, the acceptance of the last *)
(* chunk leaves posted_successfully = True.                                *)
ChunkOutcome(ok, i, n) ==
    IF ~ok THEN "failed" ELSE IF i < n THEN "more" ELSE "posted"

ReplyMarkupOnEveryChunk(i, n) == TRUE

(* poster.py 514-524: the chunk that is sent with the inline keyboard      *)
(* (i == num_chunks - 1, counting from 0)                                  *)
ReplyMarkup(i, n) == i = n

(* poster.py 512-542: one send_message; the first refusal ends the         *)
(* article, the last acceptance marks it delivered.                        *)
PosterSendChunk ==
    /\ ppc = "chunk"
    /\ LET a == attempts[Len(attempts)]
           sentNow(ok) == [a EXCEPT !.accepted = IF ok THEN chunk_i ELSE @,
                                    !.failed = ~ok,
                                    !.buttons = IF ReplyMarkup(chunk_i, a.nchunks)
                                                THEN @ \cup {chunk_i} ELSE @]
       IN  \E ok \in BOOLEAN :
               IF ChunkOutcome(ok, chunk_i, a.nchunks) = "failed"
               THEN /\ attempts' = [attempts EXCEPT ![Len(attempts)] = sentNow(ok)]
                    /\ ppc' = "loop"
                    /\ pidx' = pidx + 1
                    /\ UNCHANGED <<new_ids, sent, chunk_i>>
               ELSE IF ChunkOutcome(ok, chunk_i, a.nchunks) = "more"
               THEN /\ attempts' = [attempts EXCEPT ![Len(attempts)] = sentNow(ok)]
                    /\ chunk_i' = chunk_i + 1
                    /\ UNCHANGED <<ppc, pidx, new_ids, sent>>
               ELSE /\ attempts' = [attempts EXCEPT ![Len(attempts)] =
                                        [sentNow(ok) EXCEPT !.marked = TRUE]]
                    /\ new_ids' = new_ids \cup {a.id}
                    /\ sent' = sent + 1
                    /\ ppc' = "loop"
                    /\ pidx' = pidx + 1
                    /\ UNCHANGED chunk_i
    /\ UNCHANGED <<pipeVars, ioVars, auxVars>>
    /\ UNCHANGED <<fileVars, lastSave, limit, posted_ids_old, articles_to_post>>

(* poster.py 546-548 *)
PosterSave ==
    /\ ppc = "save"
    /\ LET all_ids_to_save == posted_ids_old \cup new_ids
           r == save_posted_ids(all_ids_to_save, stateFile)
       IN  /\ stateFile' = r.file
           /\ lastSave' = [called |-> TRUE, raised |-> r.raised,
                           prior |-> stateFile, all |-> all_ids_to_save]
           /\ ppc' = IF r.raised THEN "raised" ELSE "done"
    /\ UNCHANGED <<articles, catalogFile, pipeVars, ioVars, auxVars, limit, posted_ids_old,
                   articles_to_post, new_ids, sent, pidx,
                   chunk_i, attempts>>

(***************************************************************************)
(* main.py main                                                            *)
(***************************************************************************)
NoLast ==
    [guid |-> PyNone, dir |-> DirName(PyStr(1), "a-b"), outcome |-> "-", ret |-> NoMeta,
     fetched |-> FALSE, translate_calls |-> 0, provider_calls |-> 0, downloads |-> {},
     wrote |-> {}, title_attempts |-> 0, body_attempts |-> 0, backoff |-> <<>>,
     entry_before |-> NoEntry, entry_after |-> NoEntry,
     catalog_before |-> <<>>, catalog_after |-> <<>>, counted_new |-> FALSE]

NoStart == [stateFile |-> NoFile, catalogFile |-> NoFile, articles |-> NoArticles]

(* The process has not ended *)
Running == -1

(* mutant of ExitCode: the driver swallows the exception *)
ExitCodeAlwaysZero(raised) == IF raised THEN 0 ELSE 0

(* main.py 570-572: exit(1) when an exception reached the driver, else the *)
(* interpreter ends with 0.                                                *)
ExitCode(raised) == IF raised THEN 1 ELSE 0

PipelineIdle ==
    /\ feed = <<>>
    /\ lang = ""
    /\ mpc = "idle"
    /\ run = 0
    /\ posted_ids_from_repo = {}
    /\ rss_entries = <<>>
    /\ catalog = <<>>
    /\ existing_ids_in_catalog = {}
    /\ new_articles_processed_in_run = 0
    /\ updated_guids_to_post = {}
    /\ midx = 1
    /\ status = "-"
    /\ atStart = NoStart
    /\ last = NoLast
    /\ calls = <<>>
    /\ provider_calls = 0
    /\ exit_code = Running
    /\ faulty = FALSE
    /\ save_errors = {}

(***************************************************************************)
(* Processes calling the load and save functions of the two state files.   *)
(***************************************************************************)
ProcIds == {1, 2}

NoDisk == [catalog |-> NoRaw, posted |-> NoRaw]

(* pc: where the call is; arg, all: the argument of a save; out: the cells *)
(* json.dump produces; flushed: how many of them reached the file; lock:   *)
(* the flock the process holds; done, raised, value, ids, observed: how a  *)
(* finished call ended and the text a load read; saved: the argument of    *)
(* the last save_catalog the process completed.                            *)
IdleProc ==
    [pc |-> "idle", op |-> "-", arg |-> <<>>, all |-> {}, out |-> <<>>, flushed |-> 0,
     lock |-> "none", done |-> FALSE, raised |-> FALSE, value |-> <<>>, ids |-> {},
     observed |-> NoRaw, saved |-> [some |-> FALSE, list |-> <<>>]]

RetryIdle ==
    /\ rpc = "idle"
    /\ attempt = 0
    /\ responses = <<>>
    /\ sleeps = <<>>
    /\ ret = "-"

(* chunk_text has not been called *)
NotCalled == [done |-> FALSE, out |-> <<>>]

ChunkIdle ==
    /\ ctext = <<>>
    /\ csize = 0
    /\ chunks = NotCalled

(* The image URLs, and where save_image puts them (main.py 96-103): the     *)
(* md5 of the URL, with the extension found in the URL or ".bin"           *)
Urls == {"https://i/a.jpg?w=1", "https://i/b"}
md5(u) == <<"md5", u>>
Extension(u) == IF u = "https://i/a.jpg?w=1" THEN ".jpg" ELSE ".bin"
Dest(u) == [hash |-> md5(u), ext |-> Extension(u)]
NoDest == [hash |-> <<"md5", "">>, ext |-> ""]
Dests == {Dest(u) : u \in Urls}

(* A destination path with no file, and with a file of no bytes *)
NoImage == [exists |-> FALSE, bytes |-> "", path |-> NoDest]
EmptyImage == [exists |-> TRUE, bytes |-> "", path |-> NoDest]

NoCall == [fn |-> "-", url |-> ""]
NoReturn == [k |-> "-", dest |-> NoDest]

FetchIdle ==
    /\ fpc = "idle"
    /\ fcall = NoCall
    /\ fanswers = <<>>
    /\ fsleeps = <<>>
    /\ fret = NoReturn
    /\ store = [d \in Dests |-> NoImage]

AuxIdle == RetryIdle /\ ChunkIdle /\ FetchIdle

IoIdle ==
    /\ disk = NoDisk
    /\ procs = [p \in ProcIds |-> IdleProc]
    /\ AuxIdle

(* mutant of AfterDescriptor: a descriptor without a record ends the run *)
AfterDescriptorAborting(meta) == IF meta.exists THEN "loop" ELSE "fatal"

(* main.py 538-548: parse_and_save returned (a record or None); nothing is *)
(* raised and the for loop goes on to the next descriptor.                 *)
AfterDescriptor(meta) == "loop"

(* main.py 510-526: the posted-state file, the feed and the Catalog are read *)
PipelineLoad ==
    /\ mpc = "start"
    /\ atStart' = [stateFile |-> stateFile, catalogFile |-> catalogFile,
                   articles |-> articles]
    /\ new_articles_processed_in_run' = 0
    /\ updated_guids_to_post' = {}
    /\ midx' = 1
    /\ status' = "-"
    /\ last' = NoLast
    /\ calls' = <<>>
    /\ provider_calls' = 0
    /\ save_errors' = {}
    /\ exit_code' = IF NotIterable(stateFile) \/ NotIterable(catalogFile)
                    THEN ExitCode(TRUE) ELSE Running
    /\ IF NotIterable(stateFile)
       THEN /\ mpc' = "fatal"
            /\ posted_ids_from_repo' = {}
            /\ rss_entries' = <<>>
            /\ catalog' = <<>>
            /\ existing_ids_in_catalog' = {}
       ELSE IF NotIterable(catalogFile)
       THEN /\ mpc' = "fatal"
            /\ posted_ids_from_repo' = main_load_posted_ids(stateFile)
            /\ rss_entries' = feed
            /\ catalog' = <<>>
            /\ existing_ids_in_catalog' = {}
       ELSE /\ mpc' = "loop"
            /\ posted_ids_from_repo' = main_load_posted_ids(stateFile)
            /\ rss_entries' = feed
            /\ catalog' = load_catalog(catalogFile)
            /\ existing_ids_in_catalog' =
                 {load_catalog(catalogFile)[i].id : i \in 1..Len(load_catalog(catalogFile))}
    /\ UNCHANGED <<fileVars, lastSave, posterVars, ioVars, auxVars, feed, lang, run, faulty>>

KeepingId(entries, id) == entries

(* main.py 540: catalog = [item for item in catalog if item["id"] != article_guid] *)
WithoutId(entries, id) == SelectSeq(entries, LAMBDA item : item.id # id)

(* main.py 528-548: one descriptor of the batch loop *)
PipelineStep ==
    /\ mpc = "loop"
    /\ midx <= Len(rss_entries)
    /\ LET entry == rss_entries[midx]
           article_guid == str(entry.guid)
           d == DirName(entry.guid, Slug(entry.title))
       IN  IF article_guid \in posted_ids_from_repo
           THEN /\ last' = [NoLast EXCEPT !.guid = article_guid, !.dir = d,
                                          !.outcome = "skipped",
                                          !.entry_before = articles[d],
                                          !.entry_after = articles[d],
                                          !.catalog_before = catalog,
                                          !.catalog_after = catalog]
                /\ UNCHANGED <<articles, catalog, existing_ids_in_catalog,
                               new_articles_processed_in_run, updated_guids_to_post,
                               provider_calls, calls, mpc, exit_code>>
           ELSE \E tr \in [1..NParas(entry.text) -> BOOLEAN],
                   images \in Perms(SavedImages(articles[d], entry)) :
                LET r == parse_and_save(articles[d], entry, lang, tr, images)
                    meta == r.ret
                    known == article_guid \in existing_ids_in_catalog
                    kept == IF known
                            THEN WithoutId(catalog, article_guid)
                            ELSE catalog
                    catalog_after == IF meta.exists
                                     THEN Append(kept, CatalogItem(meta)) ELSE catalog
                IN  /\ articles' = [articles EXCEPT ![d] = r.entry]
                    /\ calls' = Append(calls, midx)
                    /\ mpc' = AfterDescriptor(meta)
                    /\ exit_code' = IF AfterDescriptor(meta) = "fatal"
                                    THEN ExitCode(TRUE) ELSE exit_code
                    /\ catalog' = catalog_after
                    /\ provider_calls' = provider_calls + r.provider_calls
                    /\ last' = [guid |-> article_guid, dir |-> d, outcome |-> r.outcome,
                                ret |-> meta, fetched |-> r.fetched,
                                translate_calls |-> r.translate_calls,
                                provider_calls |-> r.provider_calls,
                                downloads |-> r.downloads, wrote |-> r.wrote,
                                title_attempts |-> r.title_attempts,
                                body_attempts |-> r.body_attempts,
                                backoff |-> r.backoff,
                                entry_before |-> articles[d], entry_after |-> r.entry,
                                catalog_before |-> catalog,
                                catalog_after |-> catalog_after,
                                counted_new |-> meta.exists /\ ~known]
                    /\ IF meta.exists
                       THEN /\ new_articles_processed_in_run' =
                                   new_articles_processed_in_run + (IF known THEN 0 ELSE 1)
                            /\ existing_ids_in_catalog' =
                                   existing_ids_in_catalog \cup {article_guid}
                            /\ updated_guids_to_post' =
                                   updated_guids_to_post \cup {article_guid}
                       ELSE UNCHANGED <<new_articles_processed_in_run,
                                        existing_ids_in_catalog, updated_guids_to_post>>
    /\ midx' = midx + 1
    /\ UNCHANGED <<stateFile, catalogFile, lastSave, posterVars, ioVars, auxVars, feed, lang, run,
                   posted_ids_from_repo, rss_entries, status, atStart, faulty,
                   save_errors>>

(* What a write that can fail leaves: IOError at open leaves the file as   *)
(* it was, IOError after open("w") leaves a truncated, unreadable file.    *)
WriteOutcomes(can_fail) == IF can_fail THEN {"ok", "open", "write"} ELSE {"ok"}

WriteFile(old, new, outcome) ==
    CASE outcome = "ok" -> new
      [] outcome = "open" -> old
      [] OTHER -> NoFile

(* mutant of BatchDone: the files are saved after the first descriptor *)
BatchDoneEarly(i, entries) == i > 1

(* main.py 528: the for loop over rss_entries has ended *)
BatchDone(i, entries) == i > Len(entries)

(* main.py 551-568: the end of the run.  list(final_posted_ids) has the    *)
(* iteration order of a set of str, which differs from process to process. *)
PipelineSave ==
    /\ mpc = "loop"
    /\ BatchDone(midx, rss_entries)
    /\ IF new_articles_processed_in_run > 0
       THEN \E order \in Perms(posted_ids_from_repo \cup updated_guids_to_post),
               c \in WriteOutcomes(faulty), p \in WriteOutcomes(faulty) :
                /\ catalogFile' = WriteFile(catalogFile, save_catalog(catalog), c)
                /\ stateFile' = WriteFile(stateFile, ListFile(order), p)
                /\ save_errors' = {f \in {"catalog"} : c # "ok"}
                                      \cup {f \in {"posted"} : p # "ok"}
                /\ status' = "true"
       ELSE /\ UNCHANGED <<catalogFile, stateFile, save_errors>>
            /\ status' = "false"
    /\ mpc' = "done"
    /\ exit_code' = ExitCode(FALSE)
    /\ UNCHANGED <<articles, lastSave, posterVars, ioVars, auxVars, feed, lang, run, posted_ids_from_repo,
                   rss_entries, catalog, existing_ids_in_catalog,
                   new_articles_processed_in_run, updated_guids_to_post, midx, atStart,
                   last, calls, provider_calls, faulty>>

MaxRuns == 2

(* The workflow starts the Pipeline again, on the files the last run left *)
PipelineRestart ==
    /\ mpc = "done"
    /\ run < MaxRuns
    /\ run' = run + 1
    /\ mpc' = "start"
    /\ UNCHANGED <<fileVars, lastSave, posterVars, ioVars, auxVars, feed, lang, posted_ids_from_repo,
                   rss_entries, catalog, existing_ids_in_catalog,
                   new_articles_processed_in_run, updated_guids_to_post, midx, status,
                   atStart, last, calls, provider_calls, exit_code, faulty,
                   save_errors>>

(***************************************************************************)
(* Spec: one Publisher run over a directory and a Ledger file.             *)
(***************************************************************************)
MaxLimit == 1
MaxLedger == 1

U1 == "u1"
U2 == "u2"

PosterIds == {PyInt(1), PyInt(2), PyStr(1), PyGuid(1)}

PosterEntry(id, title, text, imgs) ==
    [meta |-> [exists |-> TRUE, id |-> id, slug |-> "a-b", title |-> title,
               text_file |-> "content.txt", images |-> imgs,
               hash |-> sha256(text), translated_to |-> NoKey],
     content |-> text, content_t |-> NoTranslation, images |-> Range(imgs)]

PosterEntries ==
    {NoEntry}
    \cup {PosterEntry(id, StrTitle("A b", "en"), LongText, <<U1>>) : id \in PosterIds}
    \cup {PosterEntry(id, StrTitle("c", "en"), "t1", <<>>) : id \in PosterIds}
    \cup {PosterEntry(id, EmptyTitle, "t1", <<U1>>) : id \in PosterIds}

PosterDirs == {DirName(PyStr(1), "a-b"), DirName(PyStr(1), "c")}

PosterLedgerItems ==
    {PyInt(1), PyInt(2), PyStr(1), PyGuid(1), PyObj(PyInt(1)), PyObj(PyGuid(1))}
PosterFiles == {NoFile} \cup {ListFile(s) : s \in SeqsUpTo(PosterLedgerItems, MaxLedger)}

Init ==
    /\ stateFile \in PosterFiles
    /\ articles \in {f \in [DirNames -> PosterEntries] :
                        \A d \in DirNames \ PosterDirs : f[d] = NoEntry}
    /\ lastSave = NoSave
    /\ ppc = "start"
    /\ limit \in {NoLimit} \cup 0..MaxLimit
    /\ posted_ids_old = {}
    /\ articles_to_post = <<>>
    /\ new_ids = {}
    /\ sent = 0
    /\ pidx = 1
    /\ chunk_i = 0
    /\ attempts = <<>>
    /\ catalogFile = NoFile
    /\ PipelineIdle
    /\ IoIdle

Next ==
    \/ PosterLoad
    \/ PosterBegin
    \/ PosterSendMedia
    \/ PosterReadText
    \/ PosterSendChunk
    \/ PosterSave

Spec == Init /\ [][Next]_vars

(***************************************************************************)
(* LedgerSpec: save_posted_ids called again and again.                     *)
(***************************************************************************)
LedgerInts == {PyInt(n) : n \in 1..MaxId}

(* What a state file holds before a call: ints written by the Publisher,  *)
(* strings written by the Pipeline, {id: ...} objects of older files.      *)
LedgerItems == LedgerInts \cup {PyStr(1), PyObj(PyInt(2))}
PriorFiles == {NoFile} \cup {ListFile(s) : s \in SeqsUpTo(LedgerItems, MaxPrior)}

(* The ids a caller can pass: hashable ints and strings. *)
SaveIds == LedgerInts \cup {PyStr(1)}

(* One call save_posted_ids(all_ids_to_save, state_file). *)
SavePostedIds ==
    /\ \E all \in SUBSET SaveIds :
          LET r == save_posted_ids(all, stateFile)
          IN  /\ stateFile' = r.file
              /\ lastSave' = [called |-> TRUE, raised |-> r.raised,
                              prior |-> stateFile, all |-> all]
    /\ UNCHANGED <<articles, catalogFile, posterVars, pipeVars, ioVars, auxVars>>

LedgerInit ==
    /\ stateFile \in PriorFiles
    /\ articles = NoArticles
    /\ catalogFile = NoFile
    /\ lastSave = NoSave
    /\ PosterIdle
    /\ PipelineIdle
    /\ IoIdle

LedgerNext == SavePostedIds

LedgerSpec == LedgerInit /\ [][LedgerNext]_vars

(***************************************************************************)
(* PipelineSpec: Pipeline runs over a feed that stays the same upstream.   *)
(***************************************************************************)
MaxFeed == 2

G1 == PyGuid(1)
N1 == PyStr(1)

(* A descriptor of the feed, with what its link serves: the text of the    *)
(* page (NoText when the fetch fails), the image URLs found in it and the  *)
(* URLs whose download succeeds.                                           *)
Descriptor(guid, title, text, image_urls, ok_urls) ==
    [guid |-> guid, title |-> title, text |-> text, image_urls |-> image_urls,
     ok_urls |-> ok_urls]

FeedPool ==
    {Descriptor(G1, "A b", "t1", <<U1>>, {U1}),
     Descriptor(G1, "c", "t1", <<U1>>, {U1}),
     Descriptor(N1, "A b", "t1", <<U1>>, {U1}),
     Descriptor(G1, "A b", "t1", <<>>, {}),
     Descriptor(N1, "c", "t1", <<U1>>, {}),
     Descriptor(G1, "A b", NoText, <<>>, {}),
     Descriptor(G1, "A b", "", <<U1>>, {U1}),
     Descriptor(G1, "A b", BlankText, <<U1, U2>>, {U1, U2}),
     Descriptor(G1, "A b", LongText, <<U1, U2>>, {U1, U2})}

Feeds == UNION {[1..k -> FeedPool] : k \in 1..MaxFeed}

(* What an earlier run left in a directory: the entry parse_and_save       *)
(* writes for the descriptor, every paragraph translated.                  *)
Written(info, translate_to) ==
    parse_and_save(NoEntry, info, translate_to,
                   [i \in 1..NParas(info.text) |-> TRUE], info.image_urls).entry

PriorArticles ==
    {NoArticles}
    \cup {[NoArticles EXCEPT ![DirName(G1, "a-b")] =
               Written(Descriptor(G1, "A b", "t1", <<U1>>, {U1}), l)] : l \in {"", "ru"}}

(* A Catalog entry is only ever written for a record that is on disk. *)
PriorCatalogs == {NoFile, ListFile(<<CatalogEntry(G1, sha256("t1"), "ru")>>)}

(* The posted-state file as either program, or an older one, left it *)
PostedItems == {G1, PyInt(1), PyObj(G1)}
PostedFiles == {NoFile, ScalarFile} \cup {ListFile(<<x>>) : x \in PostedItems}

PipelineInit ==
    /\ stateFile \in PostedFiles
    /\ articles \in PriorArticles
    /\ catalogFile \in PriorCatalogs
    /\ (catalogFile # NoFile => articles # NoArticles)
    /\ lastSave = NoSave
    /\ PosterIdle
    /\ feed \in Feeds
    /\ lang \in {"", "ru"}
    /\ mpc = "start"
    /\ run = 1
    /\ posted_ids_from_repo = {}
    /\ rss_entries = <<>>
    /\ catalog = <<>>
    /\ existing_ids_in_catalog = {}
    /\ new_articles_processed_in_run = 0
    /\ updated_guids_to_post = {}
    /\ midx = 1
    /\ status = "-"
    /\ atStart = NoStart
    /\ last = NoLast
    /\ calls = <<>>
    /\ provider_calls = 0
    /\ exit_code = Running
    /\ faulty = FALSE
    /\ save_errors = {}
    /\ IoIdle

PipelineNext ==
    \/ PipelineLoad
    \/ PipelineStep
    \/ PipelineSave
    \/ PipelineRestart

PipelineSpec == PipelineInit /\ [][PipelineNext]_vars

(***************************************************************************)
(* EndToEndSpec: one Pipeline run, then one Publisher run on the same      *)
(* article directory and the same state file.                              *)
(***************************************************************************)
(* A record an older Pipeline left in the directory: integer id, plain     *)
(* string title.                                                           *)
LegacyDir == DirName(PyStr(1), "c")
LegacyEntry == PosterEntry(PyInt(2), StrTitle("A b", "en"), LongText, <<U1>>)

(* The feeds of the end-to-end runs: a new article, one whose directory is *)
(* the legacy one, a changed long article and a page without content.    *)
EndToEndPool ==
    {Descriptor(G1, "A b", "t1", <<U1>>, {U1}),
     Descriptor(N1, "c", "t1", <<U1>>, {}),
     Descriptor(G1, "A b", LongText, <<U1, U2>>, {U1, U2}),
     Descriptor(G1, "A b", NoText, <<>>, {})}
EndToEndFeeds == UNION {[1..k -> EndToEndPool] : k \in 1..MaxFeed}

EndToEndArticles ==
    PriorArticles \cup {[a EXCEPT ![LegacyDir] = LegacyEntry] : a \in PriorArticles}

EndToEndInit ==
    /\ stateFile \in PostedFiles
    /\ articles \in EndToEndArticles
    /\ catalogFile \in PriorCatalogs
    /\ (catalogFile # NoFile => articles[DirName(G1, "a-b")].meta.exists)
    /\ lastSave = NoSave
    /\ PosterIdle
    /\ feed \in EndToEndFeeds
    /\ lang \in {"", "ru"}
    /\ mpc = "start"
    /\ run = 1
    /\ posted_ids_from_repo = {}
    /\ rss_entries = <<>>
    /\ catalog = <<>>
    /\ existing_ids_in_catalog = {}
    /\ new_articles_processed_in_run = 0
    /\ updated_guids_to_post = {}
    /\ midx = 1
    /\ status = "-"
    /\ atStart = NoStart
    /\ last = NoLast
    /\ calls = <<>>
    /\ provider_calls = 0
    /\ exit_code = Running
    /\ faulty = FALSE
    /\ save_errors = {}
    /\ IoIdle

(* poster.py main is started, with or without --limit, once the Pipeline   *)
(* process has ended normally.                                             *)
PublisherStart ==
    /\ mpc = "done"
    /\ ppc = "idle"
    /\ ppc' = "start"
    /\ limit' \in {NoLimit} \cup 0..MaxLimit
    /\ UNCHANGED <<fileVars, lastSave, pipeVars, ioVars, auxVars, posted_ids_old, articles_to_post, new_ids,
                   sent, pidx, chunk_i, attempts>>

EndToEndNext ==
    \/ PipelineLoad
    \/ PipelineStep
    \/ PipelineSave
    \/ PublisherStart
    \/ PosterLoad
    \/ PosterBegin
    \/ PosterSendMedia
    \/ PosterReadText
    \/ PosterSendChunk
    \/ PosterSave

EndToEndSpec == EndToEndInit /\ [][EndToEndNext]_vars

(***************************************************************************)
(* The file functions, step by step as the operating system sees them.     *)
(***************************************************************************)
FileOf(op) == IF op \in {"load_catalog", "save_catalog"} THEN "catalog" ELSE "posted"

(* The functions that call fcntl.flock on the handle they opened *)
Locks(op) == op \in {"load_catalog", "save_catalog", "main_load_posted_ids"}

Writes(op) == op \in {"save_catalog", "save_posted_ids"}

(* catalogFile and stateFile are what json.load finds in the files *)
FilesFollow ==
    /\ catalogFile' = Parse(disk'.catalog)
    /\ stateFile' = Parse(disk'.posted)

IoUntouched == UNCHANGED <<articles, lastSave, posterVars, pipeVars, auxVars>>

Call(pr, op, first) ==
    [IdleProc EXCEPT !.pc = first, !.op = op, !.saved = pr.saved]

(* main.py: load_catalog() or save_catalog(catalog) is called; minimal is  *)
(* built (156-166) before the file is opened.                              *)
CatalogCall(p, catalogs) ==
    /\ procs[p].pc = "idle"
    /\ \/ procs' = [procs EXCEPT ![p] = Call(@, "load_catalog", "open_r")]
       \/ \E c \in catalogs :
             procs' = [procs EXCEPT ![p] =
                          [Call(@, "save_catalog", "open_w")
                               EXCEPT !.arg = c,
                                      !.out = save_catalog(c).items \o <<End>>]]
    /\ UNCHANGED <<fileVars, disk>>
    /\ IoUntouched

(* main.py load_posted_ids, poster.py load_posted_ids or poster.py         *)
(* save_posted_ids(all_ids_to_save, state_file) is called.                 *)
LedgerCall(p, idsets) ==
    /\ procs[p].pc = "idle"
    /\ \/ \E op \in {"main_load_posted_ids", "poster_load_posted_ids"} :
             procs' = [procs EXCEPT ![p] = Call(@, op, "open_r")]
       \/ \E all \in idsets :
             procs' = [procs EXCEPT ![p] =
                          [Call(@, "save_posted_ids", "open_r") EXCEPT !.all = all]]
    /\ UNCHANGED <<fileVars, disk>>
    /\ IoUntouched

(* The result save_posted_ids builds from the file it read (351-380) *)
Prepared(pr, file) ==
    LET r == save_posted_ids(pr.all, file)
    IN  IF r.raised
        THEN [pr EXCEPT !.pc = "idle", !.done = TRUE, !.raised = TRUE]
        ELSE [pr EXCEPT !.pc = "open_w", !.out = r.file.items \o <<End>>]

(* exists() / is_file() and open(path, "r"): a missing file ends a load    *)
(* with the empty result; save_posted_ids goes on without records.         *)
ProcOpenRead(p) ==
    /\ procs[p].pc = "open_r"
    /\ LET pr == procs[p]
       IN  IF disk[FileOf(pr.op)].exists
           THEN procs' = [procs EXCEPT ![p].pc = IF Locks(pr.op) THEN "lock" ELSE "read"]
           ELSE IF Writes(pr.op)
           THEN procs' = [procs EXCEPT ![p] = Prepared(pr, NoFile)]
           ELSE procs' = [procs EXCEPT ![p].pc = "idle", ![p].done = TRUE]
    /\ UNCHANGED <<fileVars, disk>>
    /\ IoUntouched

(* fcntl.flock(f, LOCK_SH) or fcntl.flock(f, LOCK_EX): blocks while another *)
(* handle of the file holds a conflicting lock.                            *)
ProcLock(p) ==
    /\ procs[p].pc = "lock"
    /\ LET pr == procs[p]
           mode == IF Writes(pr.op) THEN "EX" ELSE "SH"
       IN  /\ \A q \in ProcIds \ {p} :
                 FileOf(procs[q].op) = FileOf(pr.op)
                     => IF mode = "EX" THEN procs[q].lock = "none"
                        ELSE procs[q].lock # "EX"
           /\ procs' = [procs EXCEPT ![p].lock = mode,
                                     ![p].pc = IF Writes(pr.op) THEN "write" ELSE "read"]
    /\ UNCHANGED <<fileVars, disk>>
    /\ IoUntouched

(* json.load(f) / read_text() and what the function makes of it; the       *)
(* handle is closed when the with block is left.                           *)
ProcRead(p) ==
    /\ procs[p].pc = "read"
    /\ LET pr == procs[p]
           raw == disk[FileOf(pr.op)]
           file == Parse(raw)
           ended == [pr EXCEPT !.pc = "idle", !.lock = "none", !.done = TRUE,
                               !.observed = raw]
       IN  procs' = [procs EXCEPT ![p] =
              CASE pr.op = "load_catalog" ->
                       [ended EXCEPT !.raised = NotIterable(file),
                                     !.value = load_catalog(file)]
                [] pr.op = "main_load_posted_ids" ->
                       [ended EXCEPT !.raised = NotIterable(file),
                                     !.ids = main_load_posted_ids(file)]
                [] pr.op = "poster_load_posted_ids" ->
                       [ended EXCEPT !.ids = poster_load_posted_ids(file)]
                [] OTHER -> Prepared([pr EXCEPT !.observed = raw], file)]
    /\ UNCHANGED <<fileVars, disk>>
    /\ IoUntouched

(* open(path, "w"): the file is created or cut to length 0 at once *)
ProcOpenWrite(p) ==
    /\ procs[p].pc = "open_w"
    /\ disk' = [disk EXCEPT ![FileOf(procs[p].op)] = Truncated]
    /\ procs' = [procs EXCEPT ![p].pc = IF Locks(procs[p].op) THEN "lock" ELSE "write",
                              ![p].flushed = 0]
    /\ FilesFollow
    /\ UNCHANGED articles
    /\ IoUntouched

(* json.dump: the buffer of the handle is written out when it is full,     *)
(* which for a long list happens before the end.                           *)
ProcFlush(p) ==
    /\ procs[p].pc = "write"
    /\ procs[p].flushed = 0
    /\ \E k \in 1..(Len(procs[p].out) - 1) :
          /\ disk' = [disk EXCEPT ![FileOf(procs[p].op)] =
                         [exists |-> TRUE,
                          cells |-> WriteAt(@.cells, 0, SubSeq(procs[p].out, 1, k))]]
          /\ procs' = [procs EXCEPT ![p].flushed = k]
    /\ FilesFollow
    /\ UNCHANGED articles
    /\ IoUntouched

(* The with block of a save is left: the rest of the buffer is written at  *)
(* the offset of the handle, which is closed and so unlocked.              *)
ProcClose(p) ==
    /\ procs[p].pc = "write"
    /\ LET pr == procs[p]
       IN  /\ disk' = [disk EXCEPT ![FileOf(pr.op)] =
                          [exists |-> TRUE,
                           cells |-> WriteAt(@.cells, pr.flushed,
                                             SubSeq(pr.out, pr.flushed + 1, Len(pr.out)))]]
           /\ procs' = [procs EXCEPT ![p] =
                           [pr EXCEPT !.pc = "idle", !.lock = "none", !.done = TRUE,
                                      !.saved = IF pr.op = "save_catalog"
                                                THEN [some |-> TRUE, list |-> pr.arg]
                                                ELSE @]]
    /\ FilesFollow
    /\ UNCHANGED articles
    /\ IoUntouched

(***************************************************************************)
(* CatalogSpec: one process that loads and saves the Catalog.              *)
(***************************************************************************)
MaxCat == 2

(* Elements of a Catalog file: an entry, an object with an id only, an     *)
(* object without id, a number.                                            *)
FileItems ==
    {CatalogEntry(G1, sha256("t1"), "ru"), [id |-> N1], [hash |-> sha256("t1")], PyInt(1)}

(* The Catalog file: missing, empty, null, or a list *)
CatalogRaws ==
    {NoRaw, Truncated, RawOf(ScalarFile)} \cup {Dump(s) : s \in SeqsUpTo(FileItems, MaxCat)}

(* Elements of the list main holds: a record with its other fields, a      *)
(* record without translation, a loaded {id}, an object without id, a      *)
(* number.                                                                 *)
MemItems ==
    {[id |-> G1, hash |-> sha256("t1"), translated_to |-> "ru",
      title |-> DictTitle("A b"), images |-> <<U1>>, text_file |-> "content.ru.txt"],
     CatalogEntry(G1, sha256("t2"), NoKey),
     [id |-> N1],
     [hash |-> sha256("t1")],
     PyInt(1)}
MemCatalogs == SeqsUpTo(MemItems, MaxCat)

IoInit ==
    /\ articles = NoArticles
    /\ lastSave = NoSave
    /\ PosterIdle
    /\ PipelineIdle
    /\ procs = [p \in ProcIds |-> IdleProc]
    /\ AuxIdle
    /\ catalogFile = Parse(disk.catalog)
    /\ stateFile = Parse(disk.posted)

CatalogInit ==
    /\ disk \in {[catalog |-> c, posted |-> NoRaw] : c \in CatalogRaws}
    /\ IoInit

CatalogNext ==
    \/ CatalogCall(1, MemCatalogs)
    \/ ProcOpenRead(1)
    \/ ProcLock(1)
    \/ ProcRead(1)
    \/ ProcOpenWrite(1)
    \/ ProcFlush(1)
    \/ ProcClose(1)

CatalogSpec == CatalogInit /\ [][CatalogNext]_vars

(***************************************************************************)
(* CatalogLockSpec: two processes (overlapping scheduled runs) that load   *)
(* and save the Catalog.                                                   *)
(***************************************************************************)
E1 == CatalogEntry(G1, sha256("t1"), "ru")
E2 == CatalogEntry(N1, sha256("t1"), "")

LockCatalogs == {<<E1>>, <<E2, E1>>}

LockInit ==
    /\ articles = NoArticles
    /\ lastSave = NoSave
    /\ PosterIdle
    /\ feed = <<>>
    /\ lang = ""
    /\ mpc = "idle"
    /\ run = 0
    /\ posted_ids_from_repo = {}
    /\ rss_entries = <<>>
    /\ catalog = <<>>
    /\ existing_ids_in_catalog = {}
    /\ new_articles_processed_in_run = 0
    /\ updated_guids_to_post = {}
    /\ midx = 1
    /\ status = "-"
    /\ last = NoLast
    /\ calls = <<>>
    /\ provider_calls = 0
    /\ exit_code = Running
    /\ faulty = FALSE
    /\ save_errors = {}
    /\ procs = [p \in ProcIds |-> IdleProc]
    /\ AuxIdle
    /\ catalogFile = Parse(disk.catalog)
    /\ stateFile = Parse(disk.posted)
    /\ atStart = [stateFile |-> stateFile, catalogFile |-> catalogFile,
                  articles |-> articles]

CatalogLockInit ==
    /\ disk \in {[catalog |-> c, posted |-> NoRaw] :
                    c \in {NoRaw, Dump(<<>>), Dump(<<E2>>)}}
    /\ LockInit

CatalogLockNext ==
    \E p \in ProcIds :
        \/ CatalogCall(p, LockCatalogs)
        \/ ProcOpenRead(p)
        \/ ProcLock(p)
        \/ ProcRead(p)
        \/ ProcOpenWrite(p)
        \/ ProcFlush(p)
        \/ ProcClose(p)

CatalogLockSpec == CatalogLockInit /\ [][CatalogLockNext]_vars

(***************************************************************************)
(* LedgerLockSpec: two processes, Publisher or Pipeline, that read the     *)
(* posted-state file while a Publisher saves it.                           *)
(***************************************************************************)
LockIdSets == {{PyInt(1), PyInt(2)}, {PyInt(2), PyInt(3)}}

LedgerLockInit ==
    /\ disk \in {[catalog |-> NoRaw, posted |-> c] :
                    c \in {NoRaw, Dump(<<PyInt(1)>>), Dump(<<PyInt(2), PyInt(1)>>)}}
    /\ LockInit

LedgerLockNext ==
    \E p \in ProcIds :
        \/ LedgerCall(p, LockIdSets)
        \/ ProcOpenRead(p)
        \/ ProcLock(p)
        \/ ProcRead(p)
        \/ ProcOpenWrite(p)
        \/ ProcFlush(p)
        \/ ProcClose(p)

LedgerLockSpec == LedgerLockInit /\ [][LedgerLockNext]_vars

(***************************************************************************)
(* FaultSpec: Pipeline runs on a disk whose writes can fail.               *)
(***************************************************************************)
(* A Catalog file whose read fails although its entries are in it: one     *)
(* byte that is not UTF-8 (UnicodeDecodeError), one stray character        *)
(* (JSONDecodeError), or an IOError of the read.                           *)
UnreadableCatalog == [ok |-> FALSE, items |-> <<CatalogEntry(N1, sha256("t1"), "ru")>>]

(* The article directory of the entry in it *)
UnreadableArticles ==
    [NoArticles EXCEPT ![DirName(N1, "c")] =
         Written(Descriptor(N1, "c", "t1", <<U1>>, {U1}), "ru")]

FaultInit ==
    /\ stateFile \in PostedFiles
    /\ \/ /\ articles \in PriorArticles
          /\ catalogFile \in PriorCatalogs
          /\ (catalogFile # NoFile => articles # NoArticles)
       \/ /\ articles = UnreadableArticles
          /\ catalogFile = UnreadableCatalog
    /\ lastSave = NoSave
    /\ PosterIdle
    /\ feed \in EndToEndFeeds
    /\ lang \in {"", "ru"}
    /\ mpc = "start"
    /\ run = 1
    /\ posted_ids_from_repo = {}
    /\ rss_entries = <<>>
    /\ catalog = <<>>
    /\ existing_ids_in_catalog = {}
    /\ new_articles_processed_in_run = 0
    /\ updated_guids_to_post = {}
    /\ midx = 1
    /\ status = "-"
    /\ atStart = NoStart
    /\ last = NoLast
    /\ calls = <<>>
    /\ provider_calls = 0
    /\ exit_code = Running
    /\ faulty = TRUE
    /\ save_errors = {}
    /\ IoIdle

FaultNext ==
    \/ PipelineLoad
    \/ PipelineStep
    \/ PipelineSave
    \/ PipelineRestart

FaultSpec == FaultInit /\ [][FaultNext]_vars

(***************************************************************************)
(* RetrySpec: one call of poster.py _post_with_retry against a transport   *)
(* that answers each request as it likes.                                  *)
(***************************************************************************)
MAX_RETRIES == 3
RETRY_DELAY == 5

(* What a request ends in: a 2xx response, 429 with or without             *)
(* parameters.retry_after, 429 with a body that is not JSON, another 4xx,  *)
(* any other status, ReadTimeout, another httpx.RequestError, any other    *)
(* exception.                                                              *)
Response(kind, has_w, w) == [kind |-> kind, has_w |-> has_w, w |-> w]
RetryAfters == {1, 7}
Responses ==
    {Response(k, FALSE, 0) :
        k \in {"ok", "429", "429_no_json", "4xx", "5xx", "timeout", "request_error", "other"}}
    \cup {Response("429", TRUE, w) : w \in RetryAfters}

(* mutant of Wait: the transport's wait is ignored *)
WaitDefault(r) == RETRY_DELAY

(* poster.py 149-150: info.get("retry_after", RETRY_DELAY) *)
Wait(r) == IF r.has_w THEN r.w ELSE RETRY_DELAY

(* mutant of Terminal: a 4xx answer is retried like a 5xx *)
TerminalNever(r) == FALSE

(* poster.py 154-156: a 4xx status other than 429 ends the call *)
Terminal(r) == r.kind = "4xx"

(* mutant of Exhausted: one more request is issued *)
ExhaustedLate(n) == n > MAX_RETRIES + 1

(* poster.py 137: for attempt in range(1, MAX_RETRIES + 1) has ended *)
Exhausted(n) == n > MAX_RETRIES

RetryInit ==
    /\ stateFile = NoFile
    /\ articles = NoArticles
    /\ catalogFile = NoFile
    /\ lastSave = NoSave
    /\ PosterIdle
    /\ PipelineIdle
    /\ disk = NoDisk
    /\ procs = [p \in ProcIds |-> IdleProc]
    /\ RetryIdle
    /\ ChunkIdle
    /\ FetchIdle

RetryUntouched ==
    UNCHANGED <<fileVars, lastSave, posterVars, pipeVars, ioVars, chunkVars, fetchVars>>

(* _post_with_retry is called *)
RetryCall ==
    /\ rpc = "idle"
    /\ rpc' = "loop"
    /\ attempt' = 1
    /\ UNCHANGED <<responses, sleeps, ret>>
    /\ RetryUntouched

(* poster.py 137-163: one iteration of the loop: the request, what its     *)
(* outcome leads to, and the sleep that ends the iteration.                *)
RetryAttempt ==
    /\ rpc = "loop"
    /\ ~Exhausted(attempt)
    /\ \E r \in Responses :
          /\ responses' = Append(responses, r)
          /\ IF r.kind = "ok"
             THEN /\ ret' = "true"
                  /\ rpc' = "done"
                  /\ UNCHANGED <<sleeps, attempt>>
             ELSE IF r.kind = "429_no_json"
             THEN /\ ret' = "raised"
                  /\ rpc' = "done"
                  /\ UNCHANGED <<sleeps, attempt>>
             ELSE IF r.kind = "429"
             THEN /\ sleeps' = Append(sleeps, Wait(r))
                  /\ attempt' = attempt + 1
                  /\ UNCHANGED <<ret, rpc>>
             ELSE IF Terminal(r)
             THEN /\ ret' = "false"
                  /\ rpc' = "done"
                  /\ UNCHANGED <<sleeps, attempt>>
             ELSE /\ sleeps' = Append(sleeps, RETRY_DELAY)
                  /\ attempt' = attempt + 1
                  /\ UNCHANGED <<ret, rpc>>
    /\ RetryUntouched

(* poster.py 165-166: the loop ran out, return False *)
RetryGiveUp ==
    /\ rpc = "loop"
    /\ Exhausted(attempt)
    /\ ret' = "false"
    /\ rpc' = "done"
    /\ UNCHANGED <<attempt, responses, sleeps>>
    /\ RetryUntouched

RetryNext ==
    \/ RetryCall
    \/ RetryAttempt
    \/ RetryGiveUp

(* The event loop runs the coroutine on: every request ends (HTTPX_TIMEOUT) *)
(* and every sleep is finite.                                              *)
RetrySpec == RetryInit /\ [][RetryNext]_vars /\ WF_vars(RetryNext)

(***************************************************************************)
(* chunk_text (poster.py 41-78).  A text is a sequence of characters; the  *)
(* alphabet has two letters, the space, the line feed and the carriage     *)
(* return.                                                                 *)
(***************************************************************************)
MaxText == 5
MaxSize == 4

Letters == {"a", "b"}
Whitespace == {" ", "\n", "\r"}
Chars == Letters \cup Whitespace
Texts == UNION {[1..n -> Chars] : n \in 0..MaxText}
Sizes == 1..MaxSize

ParagraphSeparator == <<"\n", "\n">>
Space == <<" ">>

(* str.replace('\r\n', '\n') *)
RECURSIVE ReplaceCRLF(_)
ReplaceCRLF(s) ==
    IF Len(s) = 0 THEN <<>>
    ELSE IF Len(s) >= 2 /\ s[1] = "\r" /\ s[2] = "\n"
         THEN <<"\n">> \o ReplaceCRLF(SubSeq(s, 3, Len(s)))
         ELSE <<s[1]>> \o ReplaceCRLF(Tail(s))

(* str.split(sep): the pieces between the occurrences of sep, found from   *)
(* the left and not overlapping; always at least one piece.                *)
RECURSIVE SplitAcc(_, _, _)
SplitAcc(s, sep, piece) ==
    IF Len(s) < Len(sep) THEN <<piece \o s>>
    ELSE IF SubSeq(s, 1, Len(sep)) = sep
         THEN <<piece>> \o SplitAcc(SubSeq(s, Len(sep) + 1, Len(s)), sep, <<>>)
         ELSE SplitAcc(Tail(s), sep, Append(piece, s[1]))

Split(s, sep) == SplitAcc(s, sep, <<>>)

(* str.lstrip() *)
RECURSIVE LStrip(_)
LStrip(s) ==
    IF Len(s) > 0 /\ s[1] \in Whitespace THEN LStrip(Tail(s)) ELSE s

(* p.strip() is the empty string *)
StripsToEmpty(s) == \A i \in 1..Len(s) : s[i] \in Whitespace

NotBlank(s) == ~StripsToEmpty(s)

(* poster.py 45-46: the paragraphs of the text *)
Paragraphs(s) == SelectSeq(Split(ReplaceCRLF(s), ParagraphSeparator), NotBlank)

(* poster.py 52: the word does not fit into the running part *)
Overflows(sub, w, n) == Len(sub) + Len(w) + 1 > n

(* poster.py 49-58: split_long, the loop over p.split(" ") *)
RECURSIVE SplitLongFrom(_, _, _, _)
SplitLongFrom(ws, n, parts, sub) ==
    IF ws = <<>>
    THEN IF sub # <<>> THEN Append(parts, sub) ELSE parts
    ELSE IF Overflows(sub, Head(ws), n)
         THEN SplitLongFrom(Tail(ws), n, Append(parts, sub), Head(ws))
         ELSE SplitLongFrom(Tail(ws), n, parts, LStrip(sub \o Space \o Head(ws)))

split_long(p, n) == SplitLongFrom(Split(p, Space), n, <<>>, <<>>)

FitsWithoutSeparator(curr, p, n) == Len(curr) + Len(p) <= n

(* poster.py 69: the paragraph and its separator fit into the chunk *)
Fits(curr, p, n) == Len(curr) + 2 + Len(p) <= n

(* poster.py 60-77: the loop over the paragraphs and the final flush *)
RECURSIVE ChunkFrom(_, _, _, _)
ChunkFrom(ps, n, out, curr) ==
    IF ps = <<>>
    THEN IF curr # <<>> THEN Append(out, curr) ELSE out
    ELSE LET p == Head(ps) IN
         IF Len(p) > n
         THEN ChunkFrom(Tail(ps), n,
                        (IF curr # <<>> THEN Append(out, curr) ELSE out) \o split_long(p, n),
                        <<>>)
         ELSE IF curr = <<>>
              THEN ChunkFrom(Tail(ps), n, out, p)
              ELSE IF Fits(curr, p, n)
                   THEN ChunkFrom(Tail(ps), n, out, curr \o ParagraphSeparator \o p)
                   ELSE ChunkFrom(Tail(ps), n, Append(out, curr), p)

chunk_text(s, n) == ChunkFrom(Paragraphs(s), n, <<>>, <<>>)

ChunkInit ==
    /\ stateFile = NoFile
    /\ articles = NoArticles
    /\ catalogFile = NoFile
    /\ lastSave = NoSave
    /\ PosterIdle
    /\ PipelineIdle
    /\ disk = NoDisk
    /\ procs = [p \in ProcIds |-> IdleProc]
    /\ RetryIdle
    /\ FetchIdle
    /\ ctext \in Texts
    /\ csize \in Sizes
    /\ chunks = NotCalled

ChunkUntouched ==
    UNCHANGED <<fileVars, lastSave, posterVars, pipeVars, ioVars, retryVars, fetchVars>>

(* poster.py 41-78: the call of chunk_text(text, size) *)
ChunkCall ==
    /\ ~chunks.done
    /\ chunks' = [done |-> TRUE, out |-> chunk_text(ctext, csize)]
    /\ UNCHANGED <<ctext, csize>>
    /\ ChunkUntouched

ChunkNext == ChunkCall

ChunkSpec == ChunkInit /\ [][ChunkNext]_vars

(***************************************************************************)
(* The HTTP requests of the Pipeline: save_image (main.py 87-130),         *)
(* parse_full_article (main.py 197-279) and fetch_page_content             *)
(* (vnexpress_parser.py 60-82).                                            *)
(***************************************************************************)
(* What a request can meet: a 2xx answer with a body ("ok": the image      *)
(* bytes b, or a page), a 2xx answer with an empty body, an error status   *)
(* (raise_for_status raises HTTPError, a RequestException), a timeout, a   *)
(* connection error raised before any response exists, and an exception    *)
(* that is not a RequestException.                                         *)
Answer(kind, bytes) == [kind |-> kind, bytes |-> bytes]

Answers ==
    {Answer("ok", b) : b \in {"x", "y"}}
        \cup {Answer(k, "") : k \in {"empty", "429", "4xx", "5xx", "timeout",
                                     "connection", "error"}}

Functions == {"save_image", "parse_full_article", "fetch_page_content"}

Returned(kind) == [k |-> kind, dest |-> NoDest]

(* main.py 113-118 and 268-274: the except (ReqTimeout, RequestException)  *)
(* clause; HTTPError is a RequestException whatever the status.            *)
Retried(a) == a.kind \in {"429", "4xx", "5xx", "timeout", "connection"}

(* main.py 104: dest.exists() and dest.stat().st_size > 0 *)
NeverSaved(file) == FALSE

AlreadySaved(file) == file.exists /\ file.bytes # ""

(* vnexpress_parser.py 73-82: what fetch_page_content does with the answer *)
(* of its one request.  The handler of RequestException reads the local    *)
(* variable response, which is unbound when requests.get itself raised.    *)
fetch_page_content(a) ==
    CASE a.kind \in {"ok", "empty"} -> Returned("text")
      [] a.kind = "timeout" -> Returned("None")
      [] a.kind \in {"429", "4xx", "5xx"} -> Returned("None")
      [] a.kind = "connection" -> Returned("raised")
      [] OTHER -> Returned("raised")

(* A function is called with a URL.  save_image returns at once when the   *)
(* destination file is there and not empty (main.py 104-106).              *)
FetchCall ==
    /\ fpc \in {"idle", "done"}
    /\ \E f \in Functions, u \in Urls :
          /\ fcall' = [fn |-> f, url |-> u]
          /\ fanswers' = <<>>
          /\ fsleeps' = <<>>
          /\ IF f = "save_image" /\ AlreadySaved(store[Dest(u)])
             THEN /\ fpc' = "done"
                  /\ fret' = [k |-> "path", dest |-> Dest(u)]
             ELSE /\ fpc' = "request"
                  /\ fret' = NoReturn
    /\ UNCHANGED store
    /\ UNCHANGED <<fileVars, lastSave, posterVars, pipeVars, ioVars, retryVars, chunkVars>>

(* One request of the call and what follows it: main.py 107-126 for        *)
(* save_image, 205-278 for parse_full_article (one iteration of            *)
(* for attempt in range(1, MAX_RETRIES + 1)), vnexpress_parser.py 68-82    *)
(* for fetch_page_content.                                                 *)
FetchAttempt ==
    /\ fpc = "request"
    /\ Len(fanswers) < MAIN_MAX_RETRIES
    /\ \E a \in Answers :
          LET k == Len(fanswers) + 1
              last_one == k = MAIN_MAX_RETRIES
              d == Dest(fcall.url)
              go_on == IF last_one THEN "exhausted" ELSE "request"
          IN  /\ fanswers' = Append(fanswers, a)
              /\ IF fcall.fn = "fetch_page_content"
                 THEN /\ fpc' = "done"
                      /\ fret' = fetch_page_content(a)
                      /\ UNCHANGED <<fsleeps, store>>
                 ELSE IF a.kind = "ok"
                 THEN /\ fpc' = "done"
                      /\ IF fcall.fn = "save_image"
                         THEN /\ store' = [store EXCEPT ![d] =
                                              [exists |-> TRUE, bytes |-> a.bytes, path |-> d]]
                              /\ fret' = [k |-> "path", dest |-> d]
                         ELSE /\ fret' = Returned("page")
                              /\ UNCHANGED store
                      /\ UNCHANGED fsleeps
                 ELSE IF a.kind = "empty"
                 THEN IF fcall.fn = "save_image"
                      THEN /\ fpc' = go_on
                           /\ UNCHANGED <<fsleeps, fret, store>>
                      ELSE /\ fpc' = "done"
                           /\ fret' = Returned("blank page")
                           /\ UNCHANGED <<fsleeps, store>>
                 ELSE IF Retried(a)
                 THEN /\ fsleeps' = Append(fsleeps, BASE_DELAY * 2 ^ (k - 1))
                      /\ fpc' = go_on
                      /\ UNCHANGED <<fret, store>>
                 ELSE /\ fpc' = "exhausted"
                      /\ UNCHANGED <<fsleeps, fret, store>>
    /\ UNCHANGED fcall
    /\ UNCHANGED <<fileVars, lastSave, posterVars, pipeVars, ioVars, retryVars, chunkVars>>

(* main.py 129-130 and 279: after the loop, or after its break *)
FetchGiveUp ==
    /\ fpc = "exhausted"
    /\ fpc' = "done"
    /\ fret' = Returned("None")
    /\ UNCHANGED <<fcall, fanswers, fsleeps, store>>
    /\ UNCHANGED <<fileVars, lastSave, posterVars, pipeVars, ioVars, retryVars, chunkVars>>

FetchInit ==
    /\ stateFile = NoFile
    /\ articles = NoArticles
    /\ catalogFile = NoFile
    /\ lastSave = NoSave
    /\ PosterIdle
    /\ PipelineIdle
    /\ disk = NoDisk
    /\ procs = [p \in ProcIds |-> IdleProc]
    /\ RetryIdle
    /\ ChunkIdle
    /\ fpc = "idle"
    /\ fcall = NoCall
    /\ fanswers = <<>>
    /\ fsleeps = <<>>
    /\ fret = NoReturn
    /\ store \in [Dests -> {NoImage, EmptyImage}]

FetchNext == FetchCall \/ FetchAttempt \/ FetchGiveUp

FetchSpec == FetchInit /\ [][FetchNext]_vars

(***************************************************************************)
(* OverlapSpec: two Pipeline runs at the same time, as the Catalog file    *)
(* sees them: each loads the Catalog (main.py 521), processes one new      *)
(* article of its feed (528-548) and saves the Catalog (551).              *)
(***************************************************************************)
E3 == CatalogEntry(PyGuid(2), sha256("t1"), "ru")

(* The entry of the article run p processes *)
Own(p) == IF p = 1 THEN E1 ELSE E2

(* main.py 521: catalog = load_catalog() *)
RunLoad(p) ==
    /\ procs[p].pc = "idle"
    /\ procs[p].op = "-"
    /\ procs' = [procs EXCEPT ![p] = Call(@, "load_catalog", "open_r")]
    /\ UNCHANGED <<fileVars, disk>>
    /\ IoUntouched

(* main.py 528-551: the batch loop puts the entry of the article in the    *)
(* place of an older one of its id, and save_catalog(catalog) is called.   *)
RunSave(p) ==
    /\ procs[p].pc = "idle"
    /\ procs[p].op = "load_catalog"
    /\ procs[p].done
    /\ ~procs[p].raised
    /\ LET c == Append(WithoutId(procs[p].value, Own(p).id), Own(p))
       IN  procs' = [procs EXCEPT ![p] =
                        [Call(@, "save_catalog", "open_w")
                             EXCEPT !.arg = c,
                                    !.out = save_catalog(c).items \o <<End>>,
                                    !.value = procs[p].value,
                                    !.observed = procs[p].observed]]
    /\ UNCHANGED <<fileVars, disk>>
    /\ IoUntouched

OverlapInit ==
    /\ disk \in {[catalog |-> c, posted |-> NoRaw] :
                    c \in {NoRaw, Dump(<<>>), Dump(<<E3>>)}}
    /\ LockInit

OverlapNext ==
    \E p \in ProcIds :
        \/ RunLoad(p)
        \/ RunSave(p)
        \/ ProcOpenRead(p)
        \/ ProcLock(p)
        \/ ProcRead(p)
        \/ ProcOpenWrite(p)
        \/ ProcFlush(p)
        \/ ProcClose(p)

OverlapSpec == OverlapInit /\ [][OverlapNext]_vars

(***************************************************************************)
(* Claims about the Publisher and the Ledger.                              *)
(***************************************************************************)

(* The file holds the id: as a plain item or as the id of an {id: ...}     *)
(* object, in the very representation the article carries.                 *)
InLedgerFile(id, file) ==
    /\ file.ok
    /\ \E i \in 1..Len(file.items) :
          \/ file.items[i] = id
          \/ file.items[i].t = "obj" /\ ObjId(file.items[i]) = id

RunLoaded == ppc \in {"loop", "media", "text", "chunk", "save", "raised", "done"}

(* C1 (as claimed): an article whose id is in the Ledger file when the     *)
(* Publisher run starts is never selected and no transport call is made    *)
(* for it, whether the id is an integer, a numeric string or a GUID.       *)
C1_LedgerIdNeverSelected ==
    RunLoaded /\ ~lastSave.called =>
        /\ \A i \in 1..Len(articles_to_post) :
              ~InLedgerFile(articles_to_post[i].id, stateFile)
        /\ \A i \in 1..Len(attempts) : ~InLedgerFile(attempts[i].id, stateFile)

C3_LedgerCap ==
    lastSave.called /\ ~lastSave.raised =>
        Len(stateFile.items) <= MAX_POSTED_RECORDS

(* C3 witness: a file longer than the cap, more ids than the cap to save,  *)
(* and the written list is full.                                           *)
C3_Witness ==
    /\ lastSave.called
    /\ ~lastSave.raised
    /\ Len(lastSave.prior.items) > MAX_POSTED_RECORDS
    /\ Cardinality(lastSave.all) > MAX_POSTED_RECORDS
    /\ Len(stateFile.items) = MAX_POSTED_RECORDS

(* C4 (as claimed): when save_posted_ids is given more ids than the cap    *)
(* (the stored ids and the newly delivered ones, as the Publisher calls    *)
(* it), the newly delivered ids are retained and stored ones are dropped.  *)
C4_NewIdsRetained ==
    LET stored == Range(CurrentIdsList(lastSave.prior.items))
        fresh == lastSave.all \ stored
    IN  (/\ lastSave.called
         /\ ~lastSave.raised
         /\ poster_load_posted_ids(lastSave.prior) \subseteq lastSave.all
         /\ Cardinality(lastSave.all) > MAX_POSTED_RECORDS
         /\ Cardinality(fresh) <= MAX_POSTED_RECORDS)
        => /\ fresh \subseteq Range(stateFile.items)
           /\ Len(stateFile.items) = MAX_POSTED_RECORDS


(***************************************************************************)
(* Claims about the Pipeline.                                              *)
(***************************************************************************)

(* The descriptor the batch loop took up last *)
LastEntry == rss_entries[midx - 1]
Taken == last.outcome # "-"

(* C5: every descriptor whose id is in the posted-state file at the start  *)
(* of the run, stored as a plain id or as an {id,...} object, is skipped   *)
(* before any fetch: no parse_and_save call, no page, translation or image *)
(* request for it.                                                         *)
C5_PostedIdSkippedBeforeFetch ==
    (Taken /\ InLedgerFile(last.guid, atStart.stateFile))
        => /\ last.outcome = "skipped"
           /\ ~last.fetched
           /\ last.translate_calls = 0
           /\ last.downloads = {}

(* C6: when a Pipeline run has ended, the posted-state file holds what it  *)
(* held when the run started.                                              *)
C6_PostedFileUntouched ==
    mpc = "done" => stateFile = atStart.stateFile

(* The entry of directory d2 as it was before the last parse_and_save call *)
EntryBefore(d2) == IF d2 = last.dir THEN last.entry_before ELSE articles[d2]

(* A record of this id, hash and translation target is on disk *)
StoredRecord(d2) ==
    /\ EntryBefore(d2).meta.exists
    /\ EntryBefore(d2).meta.id = LastEntry.guid
    /\ EntryBefore(d2).meta.hash = sha256(LastEntry.text)
    /\ TranslatedToOr(EntryBefore(d2).meta, "") = lang

(* C7: whenever a record for the descriptor's id is on disk with the same  *)
(* hash, translation target and id, parse_and_save returns that record,    *)
(* calls no translation, downloads no image and writes no file.            *)
C7_CacheShortCircuit ==
    \A d2 \in DirNames :
        (Taken /\ last.fetched /\ StoredRecord(d2))
            => /\ last.ret = EntryBefore(d2).meta
               /\ last.translate_calls = 0
               /\ last.downloads = {}
               /\ last.wrote = {}
               /\ last.entry_after = last.entry_before

(* C8: if the Catalog holds an entry (id, h, t) and the Pipeline fetches   *)
(* the article of that id again with target t and a text hashing to h, a   *)
(* cached record is returned and no translation call is made.              *)
C8_CatalogEntryShortCircuits ==
    (/\ Taken
     /\ last.fetched
     /\ \E i \in 1..Len(last.catalog_before) :
           /\ last.catalog_before[i].id = LastEntry.guid
           /\ last.catalog_before[i].hash = sha256(LastEntry.text)
           /\ last.catalog_before[i].translated_to = lang)
        => /\ last.outcome = "cached"
           /\ last.translate_calls = 0
           /\ last.provider_calls = 0

(* C9: the second of two runs over the same feed with the same target      *)
(* sends no translation request, leaves every record on disk as the first  *)
(* run left it and leaves the Catalog file unchanged.                      *)
C9_SecondRunIdempotent ==
    (run >= 2 /\ mpc = "done")
        => /\ provider_calls = 0
           /\ articles = atStart.articles
           /\ catalogFile = atStart.catalogFile

(* The image step of the last call ended with no image saved *)
NoImageSaved ==
    /\ Taken
    /\ last.fetched
    /\ LastEntry.text \notin {NoText, ""}
    /\ SavedImages(last.entry_before, LastEntry) = {}

(* The article was discarded: no record, no meta.json, the same Catalog *)
Discarded ==
    /\ ~last.ret.exists
    /\ "meta.json" \notin last.wrote
    /\ last.entry_after.meta = last.entry_before.meta
    /\ last.catalog_after = last.catalog_before
    /\ (mpc = "loop" => catalogFile = atStart.catalogFile)

(* C10 as stated: usable text and no image saved, then parse_and_save      *)
(* returns no record, writes no meta.json and the Catalog, in memory and   *)
(* on disk, is not changed by the descriptor.                              *)
C10_ZeroImagesAsStated == NoImageSaved => Discarded

(* C10, amended: the same for a call that the stored record does not       *)
(* short-circuit (a cache hit returns before the image step).              *)
C10_ZeroImagesDiscarded ==
    (NoImageSaved /\ ~CacheHit(last.entry_before, LastEntry.guid,
                               sha256(LastEntry.text), lang))
        => Discarded

(* C10 witness: a call whose every download failed returned no record *)
C10_Witness ==
    /\ NoImageSaved
    /\ last.downloads # {}
    /\ last.outcome = "no_images"
    /\ ~last.ret.exists

(* C11: at the extraction step a descriptor is skipped if and only if the  *)
(* page yields neither usable text nor any image URL; with a text or an    *)
(* image URL the call goes on to the hashing step.                         *)
C11_SkippedIffNothingExtracted ==
    (Taken /\ last.fetched)
        => (last.outcome = "no_text"
               <=> (LastEntry.text \in {NoText, ""} /\ LastEntry.image_urls = <<>>))

(* The descriptors up to index k that the posted-state file does not exclude *)
Passed(k) ==
    SelectSeq([i \in 1..k |-> i],
              LAMBDA i : str(rss_entries[i].guid) \notin posted_ids_from_repo)

(* C12: a descriptor that fails (no text, no image, no translation) never  *)
(* aborts the run: the run is fatal only when a state file cannot be read  *)
(* at the start, every descriptor that is not excluded is passed to        *)
(* parse_and_save in feed order, and the run ends printing its status.     *)
C12_FailureIsolation ==
    /\ mpc = "fatal"
          => (NotIterable(atStart.stateFile) \/ NotIterable(atStart.catalogFile))
    /\ mpc \in {"loop", "done"} => calls = Passed(midx - 1)
    /\ mpc = "done" => /\ midx = Len(rss_entries) + 1
                       /\ status \in {"true", "false"}

(* C12 witness: the first descriptor's fetch failed, the second one was    *)
(* processed and saved, and the run ended.                                 *)
C12_Witness ==
    /\ mpc = "done"
    /\ Len(rss_entries) = 2
    /\ rss_entries[1].text = NoText
    /\ calls = <<1, 2>>
    /\ last.outcome = "saved"
    /\ status = "true"

(* C13: when a target language is requested, the title of the persisted    *)
(* record is the original title text, translated or (translation failing)  *)
(* as it was; it is never empty when the original title is not.            *)
C13_TitleTranslatedOrOriginal ==
    (Taken /\ last.outcome = "saved" /\ lang # "")
        => /\ last.ret.title.k = "str"
           /\ last.ret.title.s = LastEntry.title
           /\ last.ret.title.l \in {lang, "en"}
           /\ last.entry_after.meta.title = last.ret.title

(* C14: after a run that ended non-fatally, the Catalog file holds, for    *)
(* every id for which parse_and_save returned a record in the run, the     *)
(* entry {id, hash, translated_to} of that record.                         *)
C14_ReturnedRecordsPersisted ==
    mpc = "done"
        => \A i \in 1..Len(catalog) :
              catalog[i].id \in updated_guids_to_post
                  => /\ catalogFile.ok
                     /\ \E j \in 1..Len(catalogFile.items) :
                           catalogFile.items[j] = save_catalog(catalog).items[i]

(* Every call of the Publisher run was accepted and nothing was raised     *)
(* while an article was read.                                              *)
TransportAcceptedAll ==
    \A i \in 1..Len(attempts) :
        ~attempts[i].failed /\ ~attempts[i].exc /\ attempts[i].media # "rejected"

(* C15: when the Publisher run that follows a Pipeline run has ended, no   *)
(* limit was set and the transport accepted every call, every id for which *)
(* the Pipeline run persisted a record (none of them was in the            *)
(* posted-state file before the run) was attempted and marked delivered.   *)
C15_EndToEndDelivery ==
    (ppc \in {"done", "raised"} /\ limit = NoLimit /\ TransportAcceptedAll)
        => \A g \in updated_guids_to_post :
               /\ g \notin main_load_posted_ids(atStart.stateFile)
               /\ \E i \in 1..Len(attempts) :
                      str(attempts[i].id) = g /\ attempts[i].marked

(***************************************************************************)
(* Claims about the Catalog and the state files.                           *)
(***************************************************************************)
LoadedCatalog(p) == procs[p].op = "load_catalog" /\ procs[p].done

(* C16: a finished load_catalog has not raised, and it returned the        *)
(* elements of the array in the file that are objects with an id, in file  *)
(* order, or the empty catalog when the file is missing or holds anything  *)
(* but an array.                                                           *)
C16_LoadNeverRaises ==
    \A p \in ProcIds :
        LoadedCatalog(p)
            => /\ ~procs[p].raised
               /\ procs[p].value =
                      IF IsDump(procs[p].observed)
                      THEN SelectSeq(SubSeq(procs[p].observed.cells, 1,
                                            Len(procs[p].observed.cells) - 1),
                                     LAMBDA item : "id" \in DOMAIN item)
                      ELSE <<>>

(* The {id, hash, translated_to} object the spec gives for an entry *)
Projection(x) ==
    [id |-> x.id,
     hash |-> IF "hash" \in DOMAIN x THEN x.hash ELSE EmptyHash,
     translated_to |-> IF "translated_to" \in DOMAIN x /\ x.translated_to # NoKey
                       THEN x.translated_to ELSE ""]

(* C17: a load_catalog that follows a completed save_catalog(E) returns,   *)
(* in the order of E, one object {id, hash, translated_to} for every       *)
(* element of E that is an object with an id (hash and translated_to       *)
(* being "" when E has none), and nothing else.                            *)
C17_SaveLoadProjection ==
    \A p \in ProcIds :
        (LoadedCatalog(p) /\ procs[p].saved.some)
            => LET kept == SelectSeq(procs[p].saved.list,
                                     LAMBDA x : "id" \in DOMAIN x)
               IN  /\ ~procs[p].raised
                   /\ procs[p].value = [i \in 1..Len(kept) |-> Projection(kept[i])]

(* A record with title, images and text path was saved next to a number   *)
(* and an {id}; the load gives the two projections.                        *)
C17_Witness ==
    /\ LoadedCatalog(1)
    /\ procs[1].saved.some
    /\ Len(procs[1].saved.list) = 2
    /\ "title" \in DOMAIN procs[1].saved.list[1]
    /\ procs[1].saved.list[2] = [id |-> N1]
    /\ procs[1].value = <<CatalogEntry(G1, sha256("t1"), "ru"),
                          CatalogEntry(N1, EmptyHash, "")>>

(* C18: a load_catalog that ran next to a save_catalog of another process  *)
(* read a complete text (never a truncated or half-written one), and once  *)
(* every call has returned the file holds the complete output of one save  *)
(* (or what it held at the start), never a mix of two.                     *)
C18_CatalogLocking ==
    /\ \A p \in ProcIds :
          (LoadedCatalog(p) /\ procs[p].observed.exists) => IsDump(procs[p].observed)
    /\ (\A p \in ProcIds : procs[p].pc = "idle")
          => \/ catalogFile = atStart.catalogFile
             \/ \E p \in ProcIds :
                   /\ procs[p].saved.some
                   /\ catalogFile = save_catalog(procs[p].saved.list)

PosterLedgerOp(p) == procs[p].op \in {"poster_load_posted_ids", "save_posted_ids"}

LoadedLedger(p) ==
    /\ procs[p].op \in {"poster_load_posted_ids", "main_load_posted_ids"}
    /\ procs[p].done

(* C19: the Publisher reads the Ledger under a shared lock and writes it   *)
(* under an exclusive lock, and a Pipeline or Publisher load that ran next *)
(* to a Publisher save read a complete Ledger, never a partly written one. *)
C19_LedgerLocking ==
    /\ \A p \in ProcIds :
          PosterLedgerOp(p)
              => /\ procs[p].pc = "read" => procs[p].lock = "SH"
                 /\ procs[p].pc = "write" => procs[p].lock = "EX"
    /\ \A p \in ProcIds :
          (LoadedLedger(p) /\ procs[p].observed.exists) => IsDump(procs[p].observed)

(* The Publisher loop has ended: every collected article was taken up or  *)
(* the limit was reached.                                                  *)
PublisherLoopEnded ==
    /\ ppc = "save"
    /\ pidx > Len(articles_to_post) \/ (limit # NoLimit /\ sent >= limit)

(* C20: a step changes the Catalog file only when the Pipeline's loop has  *)
(* taken up every descriptor of the batch, and the posted-state file only  *)
(* then or when the Publisher's loop has ended; so a run that stops at any *)
(* earlier step leaves both files as they were.                            *)
C20_FilesWrittenAfterBatch ==
    [][/\ catalogFile' # catalogFile
            => (mpc = "loop" /\ midx = Len(rss_entries) + 1)
       /\ stateFile' # stateFile
            => \/ mpc = "loop" /\ midx = Len(rss_entries) + 1
               \/ PublisherLoopEnded]_vars

(* Both runs wrote: the Pipeline the Catalog after two descriptors, the    *)
(* Publisher the Ledger after its one attempt.                             *)
C20_Witness ==
    /\ mpc = "done"
    /\ Len(rss_entries) = 2
    /\ Len(calls) = 2
    /\ catalogFile # atStart.catalogFile
    /\ ppc = "done"
    /\ Len(attempts) = 1
    /\ lastSave.called
    /\ stateFile # lastSave.prior

(***************************************************************************)
(* Claims about the exit protocol, the publishing loop and the transport.  *)
(***************************************************************************)
(* C21: a Pipeline run in which the write of the Catalog file or of the    *)
(* posted-state file raised an I/O error has exit code 1 and has printed   *)
(* no NEW_ARTICLES_STATUS line.                                            *)
C21_WriteErrorIsFatal ==
    (mpc \in {"done", "fatal"} /\ save_errors # {})
        => (exit_code = 1 /\ status = "-")

(* C22: a Pipeline run that an exception ended has exit code 1 and printed *)
(* no NEW_ARTICLES_STATUS line; a run that ended otherwise printed the     *)
(* line (true or false) as its last step and has exit code 0; while the    *)
(* batch loop runs nothing has been printed.                               *)
C22_ExitProtocol ==
    /\ mpc = "fatal" => (exit_code = 1 /\ status = "-")
    /\ mpc = "done" => (exit_code = 0 /\ status \in {"true", "false"})
    /\ mpc = "loop" => (exit_code = Running /\ status = "-")

(* The load of a posted-state file holding a JSON scalar raised TypeError *)
(* into the driver.                                                        *)
C22_Witness ==
    /\ mpc = "fatal"
    /\ NotIterable(atStart.stateFile)
    /\ exit_code = 1
    /\ status = "-"

(* C23: the articles a Publisher run takes up come in ascending order of   *)
(* id: no attempt is followed by an attempt for a smaller id, whatever the *)
(* names of their directories.                                             *)
C23_PublishOrder ==
    \A i, j \in 1..Len(attempts) :
        i < j => ~PyLess(attempts[j].id, attempts[i].id)

(* Two articles were taken up, the one with the smaller id from the        *)
(* directory that sorts last.                                              *)
C23_Witness ==
    /\ Len(attempts) = 2
    /\ attempts[1].id = PyInt(1)
    /\ attempts[2].id = PyInt(2)
    /\ DirLess(attempts[2].dir, attempts[1].dir)

(* C24: with a limit n, a Publisher run marks at most n articles as        *)
(* delivered, collects at most n new ids, and its save adds at most n ids  *)
(* to what the Ledger held, whatever the transport accepts or refuses;     *)
(* with n = 0 no article is taken up.                                      *)
C24_BatchLimit ==
    limit # NoLimit
        => /\ Cardinality({i \in 1..Len(attempts) : attempts[i].marked}) <= limit
           /\ Cardinality(new_ids) <= limit
           /\ sent <= limit
           /\ limit = 0 => attempts = <<>>
           /\ (lastSave.called /\ ~lastSave.raised)
                 => Cardinality(poster_load_posted_ids(stateFile)
                                   \ poster_load_posted_ids(lastSave.prior)) <= limit

(* Two articles were eligible, the limit was 1: the first was refused, the *)
(* second delivered, and the run saved the Ledger.                         *)
C24_Witness ==
    /\ limit = 1
    /\ Len(articles_to_post) = 2
    /\ Len(attempts) = 2
    /\ attempts[1].failed
    /\ attempts[2].marked
    /\ ppc = "done"
    /\ lastSave.called

(* C25: a call of _post_with_retry issues at most MAX_RETRIES requests,    *)
(* has returned true exactly when one of its requests succeeded, and ends. *)
C25_RetryBound ==
    /\ [](/\ Len(responses) <= MAX_RETRIES
          /\ ret = "true" <=> \E i \in 1..Len(responses) : responses[i].kind = "ok")
    /\ <>(rpc = "done")

(* Three requests, answered 429, a server error and a timeout: the call   *)
(* gave up.                                                                *)
C25_Witness ==
    /\ rpc = "done"
    /\ ret = "false"
    /\ Len(responses) = 3
    /\ responses[1].kind = "429"
    /\ responses[2].kind = "5xx"
    /\ responses[3].kind = "timeout"

(* The i-th request of the call was answered 429 with retry_after *)
RateLimited(i) == responses[i].kind = "429" /\ responses[i].has_w

(* What follows a rate-limited request i: the sleep of the transport's     *)
(* wait, once the call has ended another request, and success when that    *)
(* request was accepted.                                                   *)
RetriedAfterWait(i) ==
    /\ Len(sleeps) >= i
    /\ sleeps[i] = responses[i].w
    /\ rpc = "done" => Len(responses) > i
    /\ (Len(responses) > i /\ responses[i + 1].kind = "ok") => ret = "true"

(* C26 as stated: whenever a request is answered 429 with retry_after = w, *)
(* the call sleeps w and issues the request again; an accepted retry makes *)
(* the call return success.                                                *)
C26_RateLimitAsStated ==
    \A i \in 1..Len(responses) : RateLimited(i) => RetriedAfterWait(i)

(* C26, amended: the same for every request but the last of the            *)
(* MAX_RETRIES the call may issue; after a 429 on the last one the call    *)
(* sleeps w and returns failure.                                           *)
C26_RateLimitRetried ==
    \A i \in 1..Len(responses) :
        RateLimited(i)
            => IF i < MAX_RETRIES THEN RetriedAfterWait(i)
               ELSE /\ Len(sleeps) = i
                    /\ sleeps[i] = responses[i].w
                    /\ rpc = "done" => ret = "false"

(* Rate limited with retry_after 7, then accepted *)
C26_Witness ==
    /\ rpc = "done"
    /\ Len(responses) = 2
    /\ responses[1] = Response("429", TRUE, 7)
    /\ responses[2].kind = "ok"
    /\ sleeps = <<7>>
    /\ ret = "true"

(* C27: a request answered with a 4xx status other than 429 is the last    *)
(* request of its call: the call has returned failure, and it slept only   *)
(* after the requests before that one.                                     *)
C27_TerminalError ==
    \A i \in 1..Len(responses) :
        responses[i].kind = "4xx"
            => /\ i = Len(responses)
               /\ rpc = "done"
               /\ ret = "false"
               /\ Len(sleeps) = i - 1

(* A server error, a sleep, then a 4xx on the second request *)
C27_Witness ==
    /\ rpc = "done"
    /\ ret = "false"
    /\ Len(responses) = 2
    /\ responses[1].kind = "5xx"
    /\ responses[2].kind = "4xx"
    /\ sleeps = <<RETRY_DELAY>>

(* The concatenation of the chunks from the i-th on, each gap filled with  *)
(* the paragraph separator or with a single space                          *)
RECURSIVE Joinings(_, _)
Joinings(cs, i) ==
    IF i > Len(cs) THEN {<<>>}
    ELSE IF i = Len(cs) THEN {cs[i]}
    ELSE {cs[i] \o sep \o rest : sep \in {ParagraphSeparator, Space}, rest \in Joinings(cs, i + 1)}

(* C28: joining the chunks chunk_text returned, with the paragraph         *)
(* separator or a single space at each split point, gives the text back.   *)
C28_ChunkRoundTrip ==
    chunks.done => ctext \in Joinings(chunks.out, 1)

(* The words of a text: its maximal runs of characters that are not white  *)
(* space, in order                                                         *)
RECURSIVE WordsAcc(_, _)
WordsAcc(s, word) ==
    IF s = <<>> THEN IF word # <<>> THEN <<word>> ELSE <<>>
    ELSE IF s[1] \in Whitespace
         THEN (IF word # <<>> THEN <<word>> ELSE <<>>) \o WordsAcc(Tail(s), <<>>)
         ELSE WordsAcc(Tail(s), Append(word, s[1]))

Words(s) == WordsAcc(s, <<>>)

(* The words of the chunks from the i-th on, chunk after chunk *)
RECURSIVE WordsOfChunks(_, _)
WordsOfChunks(cs, i) ==
    IF i > Len(cs) THEN <<>> ELSE Words(cs[i]) \o WordsOfChunks(cs, i + 1)

(* The paragraphs held by the chunks from the i-th on *)
RECURSIVE ParagraphsOfChunks(_, _)
ParagraphsOfChunks(cs, i) ==
    IF i > Len(cs) THEN <<>>
    ELSE Split(cs[i], ParagraphSeparator) \o ParagraphsOfChunks(cs, i + 1)

(* Every paragraph of the text has length at most size *)
AllShort == \A i \in 1..Len(Paragraphs(ctext)) : Len(Paragraphs(ctext)[i]) <= csize

(* With short paragraphs only, each paragraph lies whole in one chunk;     *)
(* in every case each word of the text lies whole in exactly one chunk.    *)
NothingTruncated ==
    /\ AllShort => ParagraphsOfChunks(chunks.out, 1) = Paragraphs(ctext)
    /\ WordsOfChunks(chunks.out, 1) = Words(ctext)

(* A chunk that is one piece of a paragraph between two spaces and is      *)
(* longer than size                                                        *)
LongWord(c) ==
    /\ Len(c) > csize
    /\ Split(c, Space) = <<c>>
    /\ Split(c, ParagraphSeparator) = <<c>>

BodyFellBack ==
    /\ Taken
    /\ last.outcome = "saved"
    /\ "content.ru.txt" \in last.wrote
    /\ \E i \in DOMAIN last.entry_after.content_t.langs :
           last.entry_after.content_t.langs[i] = "en"

(* C30: the translation of the body falls back to the original text only   *)
(* after MAX_RETRIES attempts, with a backoff sleep between the attempts.  *)
C30_TranslationRetry ==
    BodyFellBack
        => /\ last.body_attempts = MAIN_MAX_RETRIES
           /\ Len(last.backoff) >= MAIN_MAX_RETRIES - 1

(* The i-th request of the call timed out or was answered 5xx *)
Transient(i) == responses[i].kind \in {"timeout", "5xx"}

(* C31: after a timeout or a 5xx answer the delay slept before the next    *)
(* attempt grows with the attempt number.                                  *)
C31_BackoffGrows ==
    \A i \in 1..Len(sleeps) :
        (i + 1 <= Len(sleeps) /\ Transient(i) /\ Transient(i + 1))
            => sleeps[i + 1] > sleeps[i]

(* The call has issued a request that was answered with a 4xx status other *)
(* than 429                                                                *)
Answered4xx == \E i \in 1..Len(fanswers) : fanswers[i].kind = "4xx"

(* C32: a page fetch or an image download answered 4xx (other than 429)    *)
(* issues exactly one request and returns its failed result.               *)
C32_TerminalNotRetried ==
    (fcall.fn \in {"save_image", "parse_full_article"} /\ Answered4xx)
        => /\ Len(fanswers) = 1
           /\ fpc \in {"done", "exhausted"}
           /\ fpc = "done" => fret.k = "None"

(* The chunks of the attempt handed to send_message so far *)
ChunksSent(a) == 1..(a.accepted + (IF a.failed THEN 1 ELSE 0))

(* C33: the inline keyboard goes with the last chunk of an article and     *)
(* with no other chunk, so it is sent only when every earlier chunk of the *)
(* article was accepted.                                                   *)
C33_ButtonsOnLastChunk ==
    \A i \in 1..Len(attempts) :
        LET a == attempts[i] IN
            /\ a.buttons = ChunksSent(a) \cap {a.nchunks}
            /\ a.buttons # {} => a.accepted >= a.nchunks - 1

(* An article of two chunks was delivered, and one whose last chunk was    *)
(* refused carried the keyboard too.                                       *)
C33_Witness ==
    \E i, j \in 1..Len(attempts) :
        /\ attempts[i].nchunks = 2
        /\ attempts[i].marked
        /\ attempts[i].buttons = {2}
        /\ attempts[j].nchunks = 2
        /\ attempts[j].failed
        /\ attempts[j].accepted = 1
        /\ attempts[j].buttons = {2}

(* save_image is called for a URL whose destination file is there and not  *)
(* empty                                                                   *)
CalledForSavedImage ==
    /\ fpc \in {"idle", "done"}
    /\ fcall'.fn = "save_image"
    /\ store[Dest(fcall'.url)].bytes \in {"x", "y"}

(* C34: such a call issues no request, leaves the file as it is and        *)
(* returns the path that the call which saved the file returned, the       *)
(* destination of the URL.                                                 *)
C34_ImageStoreIdempotent ==
    [][CalledForSavedImage
          => /\ fpc' = "done"
             /\ fanswers' = <<>>
             /\ store' = store
             /\ fret' = [k |-> "path", dest |-> store[Dest(fcall'.url)].path]
             /\ fret'.dest = Dest(fcall'.url)]_vars

(* The second call for an image saved with the bytes "x" has returned *)
C34_Witness ==
    /\ fpc = "done"
    /\ fcall.fn = "save_image"
    /\ fanswers = <<>>
    /\ fret = [k |-> "path", dest |-> Dest(fcall.url)]
    /\ store[Dest(fcall.url)].bytes = "x"

(* No two entries of the list have the same id *)
UniqueIds(entries) ==
    \A i, j \in 1..Len(entries) : entries[i].id = entries[j].id => i = j

(* C35: when the Catalog was loaded with at most one entry per id, the      *)
(* in-memory Catalog has at most one entry per id after every step of the  *)
(* batch loop, and the entry of the id just processed is the record        *)
(* parse_and_save returned for it.                                         *)
C35_LastWriteWins ==
    (mpc \in {"loop", "done"} /\ UniqueIds(load_catalog(atStart.catalogFile)))
        => /\ UniqueIds(catalog)
           /\ (Taken /\ last.ret.exists)
                 => \E i \in 1..Len(catalog) :
                        /\ catalog[i].id = last.guid
                        /\ catalog[i] = CatalogItem(last.ret)

(* The same id came twice in the feed, with a new title the second time:   *)
(* its entry was replaced by the second record.                            *)
C35_Witness ==
    /\ mpc = "loop"
    /\ calls = <<1, 2>>
    /\ rss_entries[1].guid = rss_entries[2].guid
    /\ rss_entries[1].title # rss_entries[2].title
    /\ last.outcome = "saved"
    /\ ~last.counted_new
    /\ Len(last.catalog_before) = 1
    /\ Len(catalog) = 1

(* The ids of the entries a Catalog file holds *)
FileIds(file) ==
    {file.items[i].id : i \in {j \in 1..Len(file.items) : WellFormed(file.items[j])}}

(* C36: every id that was in the Catalog file before a run is in the       *)
(* Catalog file after the run, when no write of the run failed.            *)
C36_NeverDeleted ==
    (mpc = "done" /\ save_errors = {})
        => FileIds(atStart.catalogFile) \subseteq FileIds(catalogFile)

(* C37: fetch_page_content answers a timeout, a connection error raised    *)
(* before any response exists and an HTTP error status with None, and      *)
(* raises nothing.                                                         *)
C37_FetchFailureIsNone ==
    (/\ fcall.fn = "fetch_page_content"
     /\ fpc = "done"
     /\ fanswers[1].kind \in {"timeout", "connection", "429", "4xx", "5xx"})
        => fret.k = "None"

(* C38: every chunk chunk_text returns has at least one character. *)
C38_NoEmptyChunk ==
    chunks.done => \A i \in 1..Len(chunks.out) : Len(chunks.out[i]) >= 1

(* C39: within one Publisher run no id is delivered more than once. *)
C39_OneDeliveryPerId ==
    \A i, j \in 1..Len(attempts) :
        (attempts[i].marked /\ attempts[j].marked /\ attempts[i].id = attempts[j].id)
            => i = j

(* Both runs loaded the Catalog as it was at the start, before either      *)
(* saved it, and both have saved it.                                       *)
BothSavedAfterOverlap ==
    \A p \in ProcIds :
        /\ procs[p].op = "save_catalog"
        /\ procs[p].done
        /\ procs[p].observed = RawOf(atStart.catalogFile)

(* C40: after two overlapping runs the Catalog file holds the entries of   *)
(* the articles of both.                                                   *)
C40_NoLostCatalogUpdate ==
    BothSavedAfterOverlap
        => \A p \in ProcIds :
               \E i \in 1..Len(catalogFile.items) : catalogFile.items[i] = Own(p)

=============================================================================
